---- MODULE Spec2Model ----
(***************************************************************************)
(* Verification model of the tiered decision routing and goal priority     *)
(* logic of the Fallout 76 automation agent:                               *)
(*   - the three situation classifiers (rag_lightweight.py,                *)
(*     local_llm_with_rag.py, main_bot_enhanced.py),                       *)
(*   - SmartDecisionRouter / HybridRAGBrain (rag_lightweight.py),          *)
(*   - IntelligentDecisionMaker and GoalManager (comprehensive_fo76_ai.py),*)
(*   - IntelligentFallout76AI.make_intelligent_decision                    *)
(*     (main_bot_enhanced.py).                                             *)
(* Each component has its own specification (SpecClassify, SpecRouter,     *)
(* SpecDM, SpecGoals, SpecEnh); the variables of the other components are  *)
(* left at their initial value by it.                                      *)
(* Scores are in tenths (0.7 is 7), durations in tenths of a second, the   *)
(* clock in seconds.                                                       *)
(***************************************************************************)
EXTENDS Integers, Sequences, FiniteSets, TLC

VARIABLES
  cl_situation,   \* classifier harness: the situation handed to a classifier
  cl_goals,       \* classifier harness: the active goal ids handed to it
  cl_variant,     \* which classifier has been applied ("none" before the call)
  cl_result,      \* the category (or reflex key) it returned
  situation_responses,  \* FastRAGSystem.situation_responses (a mutable dict)
  decision_stats,       \* SmartDecisionRouter.decision_stats
  rt_calls,             \* number of HybridRAGBrain.make_decision calls so far
  rt_last,              \* what the last make_decision call did and returned
  cx_context,     \* complexity harness: the context flags that are set
  cx_goal,        \* complexity harness: the goal id
  cx_result,      \* complexity harness: the score returned (-1 before the call)
  now,                         \* time.time(), in seconds
  remote_available,            \* IntelligentDecisionMaker.remote_available
  complex_decision_threshold,  \* IntelligentDecisionMaker, in tenths
  last_remote_call,            \* IntelligentDecisionMaker.last_remote_call
  remote_call_cooldown,        \* IntelligentDecisionMaker, in seconds
  is_openhermes,               \* IntelligentDecisionMaker.is_openhermes
  dm_calls,                    \* number of make_decision calls so far
  dm_last,                     \* what the last make_decision call did and returned
  goal_enabled,   \* GoalManager.goals[id].enabled, by goal id
  active_goals,   \* GoalManager.active_goals (a list)
  gm_calls,       \* number of get_highest_priority_goal calls so far
  gm_last,        \* the context and the result of the last such call
  en_now,                \* time.time() of the enhanced orchestrator, in seconds
  en_enabled,            \* main_bot_enhanced GoalManager.goals[id].enabled
  en_stats,              \* IntelligentFallout76AI.stats (the counters)
  consecutive_failures,  \* LocalBrain.consecutive_failures of self.brain
  en_last,               \* what the last loop cycle did
  device_events,   \* the events ActionController has written to its input device
  execution_count,   \* shared_state["execution_count"] of main_bot
  ex_calls,   \* number of actuator calls so far
  ex_last,  \* what the last actuator call was given and did
  running,   \* IntelligentF76AI.running
  paused,   \* IntelligentF76AI.paused
  game_active,   \* what Vision.is_game_active() reports at this moment
  cmd_pc,   \* where the command processing loop of main() is
  loop_pc,   \* where each main_loop thread is
  cycle_count,   \* the local cycle_count of each main_loop thread
  seen_active,   \* the last is_game_active() answer each main_loop thread got
  mb_last,  \* the thread that ended a cycle body last, and how
  status,   \* shared_state["status"] of main_bot: Idle, Running or Paused
  lp_loop,   \* which execution loop ran the last cycle
  lp_game_state,   \* the game state its capture_game_state returned
  lp_goals_active,   \* whether a goal was enabled in that cycle
  lp_outcome,   \* what the cycle did
  lp_cycles,  \* number of loop cycles so far
  js_text,   \* extraction harness: the response text, as a sequence of tokens
  js_client,   \* which model client extracted a plan from it ("none" before)
  js_plan,   \* the plan that client returned
  js_first,  \* the plan extracted before the plan was serialised and extracted again
  br_client,   \* the model client under test: LocalBrain, LocalBrainWithRAG or LightweightBrain
  brain_failures,   \* its consecutive_failures
  br_calls,   \* get_plan and reset_failure_counter calls made
  br_last,   \* the last call: what was asked, whether a request was sent, the plan
  br_history,  \* auxiliary: backend requests that failed / that raised since the last success or reset
  dc_pc,   \* where a make_decision call stands: idle, strategic_post, local_generate
  dc_wait,   \* seconds the pending backend request has been waiting
  dc_backends,   \* how the strategic and the local backend treat the requests of the call
  dc_call,  \* the goal and the complexity of the call
  gl_pc,   \* main_game_loop of IntegratedFallout76System: top, or in_cycle after the goal test
  gl_tested,   \* the goal states main_game_loop read at the start of the cycle
  gl_cycles,   \* decisions main_game_loop has made
  gl_last,  \* the last decision: the goal states tested, those used, the goal
  wg_goals,   \* F76GoalManager.goals as the web server sees it: goal id -> entry or Absent
  wg_calls,   \* requests answered by the goal endpoints
  wg_last,  \* the last request and its answer
  remote_server_url,   \* IntelligentDecisionMaker.remote_server_url
  cf_detected,   \* what the last _test_kobold_connection found at the server
  cf_tests   \* connection tests made through the config endpoint

cl_vars == <<cl_situation, cl_goals, cl_variant, cl_result>>
rt_vars == <<situation_responses, decision_stats, rt_calls, rt_last>>
cx_vars == <<cx_context, cx_goal, cx_result>>
dm_vars == <<now, remote_available, complex_decision_threshold, last_remote_call,
             remote_call_cooldown, is_openhermes, dm_calls, dm_last>>

gm_vars == <<goal_enabled, active_goals, gm_calls, gm_last>>

en_vars == <<en_now, en_enabled, en_stats, consecutive_failures, en_last>>

ac_vars == <<device_events, execution_count, ex_calls, ex_last>>

mb_vars == <<running, paused, game_active, cmd_pc, loop_pc, cycle_count, seen_active, mb_last,
            status>>

lp_vars == <<lp_loop, lp_game_state, lp_goals_active, lp_outcome, lp_cycles>>

js_vars == <<js_text, js_client, js_plan, js_first>>

br_vars == <<br_client, brain_failures, br_calls, br_last, br_history>>

dc_vars == <<dc_pc, dc_wait, dc_backends, dc_call>>

gl_vars == <<gl_pc, gl_tested, gl_cycles, gl_last>>

wg_vars == <<wg_goals, wg_calls, wg_last>>

cf_vars == <<remote_server_url, cf_detected, cf_tests>>

vars == <<cl_vars, rt_vars, cx_vars, dm_vars, gm_vars, en_vars, ac_vars, mb_vars, lp_vars, js_vars, br_vars, dc_vars, gl_vars, wg_vars, cf_vars>>

\* what the actions of one component leave unchanged
not_cl == <<rt_vars, cx_vars, dm_vars, gm_vars, en_vars, ac_vars, mb_vars, lp_vars, js_vars, br_vars, dc_vars, gl_vars, wg_vars, cf_vars>>
not_rt == <<cl_vars, cx_vars, dm_vars, gm_vars, en_vars, ac_vars, mb_vars, lp_vars, js_vars, br_vars, dc_vars, gl_vars, wg_vars, cf_vars>>
not_cx == <<cl_vars, rt_vars, dm_vars, gm_vars, en_vars, ac_vars, mb_vars, lp_vars, js_vars, br_vars, dc_vars, gl_vars, wg_vars, cf_vars>>
not_dm == <<cl_vars, rt_vars, cx_vars, gm_vars, en_vars, ac_vars, mb_vars, lp_vars, js_vars, br_vars, dc_vars, gl_vars, wg_vars, cf_vars>>
not_gm == <<cl_vars, rt_vars, cx_vars, dm_vars, en_vars, ac_vars, mb_vars, lp_vars, js_vars, br_vars, dc_vars, gl_vars, wg_vars, cf_vars>>
not_en == <<cl_vars, rt_vars, cx_vars, dm_vars, gm_vars, ac_vars, mb_vars, lp_vars, js_vars, br_vars, dc_vars, gl_vars, wg_vars, cf_vars>>
not_ac == <<cl_vars, rt_vars, cx_vars, dm_vars, gm_vars, en_vars, mb_vars, lp_vars, js_vars, br_vars, dc_vars, gl_vars, wg_vars, cf_vars>>
not_mb == <<cl_vars, rt_vars, cx_vars, dm_vars, gm_vars, en_vars, ac_vars, lp_vars, js_vars, br_vars, dc_vars, gl_vars, wg_vars, cf_vars>>
not_lp == <<cl_vars, rt_vars, cx_vars, dm_vars, gm_vars, en_vars, ac_vars, mb_vars, js_vars, br_vars, dc_vars, gl_vars, wg_vars, cf_vars>>
not_js == <<cl_vars, rt_vars, cx_vars, dm_vars, gm_vars, en_vars, ac_vars, mb_vars, lp_vars, br_vars, dc_vars, gl_vars, wg_vars, cf_vars>>
not_br == <<cl_vars, rt_vars, cx_vars, dm_vars, gm_vars, en_vars, ac_vars, mb_vars, lp_vars, js_vars, dc_vars, gl_vars, wg_vars, cf_vars>>
not_dc == <<cl_vars, rt_vars, cx_vars, dm_vars, gm_vars, en_vars, ac_vars, mb_vars, lp_vars, js_vars, br_vars, gl_vars, wg_vars, cf_vars>>
not_wg == <<cl_vars, rt_vars, cx_vars, dm_vars, gm_vars, en_vars, ac_vars, mb_vars, lp_vars, js_vars, br_vars, dc_vars, gl_vars, cf_vars>>
not_gl == <<cl_vars, rt_vars, cx_vars, dm_vars, gm_vars, en_vars, ac_vars, mb_vars, lp_vars, js_vars, br_vars, dc_vars, wg_vars, cf_vars>>
not_cf == <<cl_vars, rt_vars, cx_vars, dm_vars, gm_vars, en_vars, ac_vars, mb_vars, lp_vars, js_vars, br_vars, dc_vars, gl_vars, wg_vars>>

(***************************************************************************)
(* Bounds                                                                  *)
(***************************************************************************)
\* longest list of detections of a situation
MaxObjects == 2
\* health is a percentage
MaxHealth == 100
\* longest goal list handed to the router
MaxRouterGoals == 2
\* number of HybridRAGBrain.make_decision calls explored
MaxRouterCalls == 3
\* the clock at construction of the decision maker (stands for the Unix time)
ClockStart == 60
\* the clock stops here
MaxTime == 135
\* number of IntelligentDecisionMaker.make_decision calls explored
MaxDMCalls == 3
\* number of GoalManager.get_highest_priority_goal calls explored
MaxGoalCalls == 2
\* number of deciding loop cycles of the enhanced orchestrator explored
MaxEnhCycles == 2
\* number of actuator calls explored
MaxActuatorCalls == 2
\* number of main_loop threads that can be started
MaxLoopThreads == 2
\* number of cycles a main_loop thread is followed through
MaxLoopCycles == 2
\* number of cycles of the asyncio execution loops explored
MaxAsyncCycles == 3
\* length of the response texts explored, in tokens
MaxTextLen == 6
MaxBrainCalls == 5
MaxLocalWait == 90
MaxGameLoopCycles == 2

(***************************************************************************)
(* Perception data                                                         *)
(***************************************************************************)
\* Detector class names; "Person" stands for a label that is not lower case.
Labels == {"person", "Person", "container", "tree"}

\* str.lower() on a label
lower(label) == IF label = "Person" THEN "person" ELSE label

\* `word in obj.get('label', '').lower()` on the labels above
label_has(word, label) == lower(label) = word

ObjectLists == UNION {[1..n -> Labels] : n \in 0..MaxObjects}

\* any('person' in obj.get('label', '').lower() for obj in detected_objects)
has_enemy(detected_objects) ==
  \E i \in 1..Len(detected_objects) : label_has("person", detected_objects[i])

\* any('container' in obj.get('label', '').lower() for obj in detected_objects)
has_loot(detected_objects) ==
  \E i \in 1..Len(detected_objects) : label_has("container", detected_objects[i])

\* A situation dictionary: detections, health and the environmental flags
\* the router reads with situation.get(..).
Situation(objs, health, flags) ==
  [detected_objects |-> objs, health |-> health,
   event_active |-> "event_active" \in flags, stuck |-> "stuck" \in flags,
   near_water |-> "near_water" \in flags, has_fish |-> "has_fish" \in flags,
   overweight |-> "overweight" \in flags,
   vendor_nearby |-> "vendor_nearby" \in flags,
   event_complete |-> "event_complete" \in flags]

(***************************************************************************)
(* The three situation classifiers                                         *)
(***************************************************************************)
\* faulty variant: loot detection tested before threat detection
classify_situation_loot_first(situation, goals) ==
  IF has_loot(situation.detected_objects) THEN "loot_container_safe"
  ELSE IF has_enemy(situation.detected_objects)
       THEN (IF situation.health < 30 THEN "low_health_combat" ELSE "enemy_detected")
  ELSE IF situation.event_active THEN "public_event_active"
  ELSE IF situation.stuck THEN "stuck_on_geometry"
  ELSE "unknown_situation"

\* SmartDecisionRouter._classify_situation
classify_situation(situation, goals) ==
  IF has_enemy(situation.detected_objects)
  THEN (IF situation.health < 30 THEN "low_health_combat" ELSE "enemy_detected")
  ELSE IF has_loot(situation.detected_objects) THEN "loot_container_safe"
  ELSE IF situation.event_active THEN "public_event_active"
  ELSE IF situation.stuck THEN "stuck_on_geometry"
  ELSE "unknown_situation"

\* LocalBrainWithRAG.analyze_situation (reads the key health_percent)
analyze_situation(vision_data, goals) ==
  IF has_enemy(vision_data.detected_objects) /\ vision_data.health < 30
  THEN "enemy_close_low_health"
  ELSE IF has_enemy(vision_data.detected_objects) /\ vision_data.health > 60
  THEN "enemy_healthy"
  ELSE IF has_loot(vision_data.detected_objects)
          /\ ~has_enemy(vision_data.detected_objects)
  THEN "loot_safe"
  ELSE "exploring_clear"

\* FastDecisionMaker.check_instant_response: the key of the reflex returned,
\* "None" when it returns None
check_instant_response(game_state, active_ids) ==
  IF has_enemy(game_state.detected_objects) /\ game_state.health < 30
  THEN "enemy_close_health_low"
  ELSE IF has_enemy(game_state.detected_objects) /\ game_state.health > 60
  THEN "enemy_detected_healthy"
  ELSE IF has_loot(game_state.detected_objects)
          /\ ~has_enemy(game_state.detected_objects)
          /\ "manage_inventory" \in active_ids
  THEN "loot_safe_nearby"
  ELSE IF "explore" \in active_ids /\ ~has_enemy(game_state.detected_objects)
  THEN "path_clear_exploring"
  ELSE "None"

(***************************************************************************)
(* FastRAGSystem: the instant lookup tables                                *)
(***************************************************************************)
\* the value None
NoneVal == [none |-> TRUE]

\* d[k] = v on a dict
dict_set(d, k, v) == [x \in DOMAIN d \cup {k} |-> IF x = k THEN v ELSE d[x]]

\* FastRAGSystem._build_instant_lookups: situation_responses
SituationResponses0 ==
  [enemy_detected |->
     [action |-> "VATS", duration |-> 1, reason |-> "engage_with_vats",
      source |-> "combat_knowledge"],
   low_health_combat |->
     [action |-> "BACKWARD", duration |-> 30, reason |-> "retreat_heal",
      source |-> "survival_knowledge"],
   loot_container_safe |->
     [action |-> "INTERACT", duration |-> 5, reason |-> "collect_resources",
      source |-> "looting_knowledge"],
   stuck_on_geometry |->
     [action |-> "BACKWARD", duration |-> 10, reason |-> "unstuck_protocol",
      source |-> "movement_knowledge"],
   public_event_active |->
     [action |-> "FORWARD", duration |-> 20, reason |-> "approach_event",
      source |-> "event_knowledge"]]

\* FastRAGSystem._build_instant_lookups: goal_procedures
GoalProcedures ==
  [fishing |->
     [at_water |-> [action |-> "INTERACT", duration |-> 50, reason |-> "cast_fishing_line"],
      no_water |-> [action |-> "FORWARD", duration |-> 30, reason |-> "find_water_body"],
      has_fish |-> [action |-> "INTERACT", duration |-> 10, reason |-> "collect_catch"]],
   inventory_management |->
     [overweight |-> [action |-> "INTERACT", duration |-> 20, reason |-> "manage_inventory"],
      junk_visible |-> [action |-> "INTERACT", duration |-> 5, reason |-> "collect_junk"],
      vendor_nearby |-> [action |-> "FORWARD", duration |-> 20, reason |-> "approach_vendor"]],
   public_events |->
     [event_marker |-> [action |-> "FORWARD", duration |-> 30, reason |-> "join_event"],
      event_active |-> [action |-> "VATS", duration |-> 1, reason |-> "participate_combat"],
      event_complete |-> [action |-> "WAIT", duration |-> 20, reason |-> "collect_rewards"]]]

(***************************************************************************)
(* GoalManager (comprehensive_fo76_ai.py): the registry                    *)
(***************************************************************************)
\* GoalManager._create_default_goals: the goal ids in registry order
DefaultGoalIds ==
  <<"do_public_events", "manage_inventory", "fishing", "daily_challenges",
    "vendor_rounds", "resource_farming", "camp_maintenance", "explore_and_map">>

GoalIdSet == {DefaultGoalIds[i] : i \in 1..Len(DefaultGoalIds)}

\* GoalManager._create_default_goals: the priority of each default goal
GoalPriority ==
  [do_public_events |-> 8, manage_inventory |-> 5, fishing |-> 3,
   daily_challenges |-> 6, vendor_rounds |-> 4, resource_farming |-> 2,
   camp_maintenance |-> 1, explore_and_map |-> 1]

\* GoalManager._create_default_goals: the enabled flag of each default goal
DefaultEnabled == [g \in GoalIdSet |-> g = "explore_and_map"]

\* the context get_highest_priority_goal reads
GoalContext(event, weight, water) ==
  [public_event_active |-> event, weight_ratio |-> weight, at_water |-> water]

\* GoalManager.__init__: the registry after _create_default_goals
GmIdle ==
  /\ goal_enabled = DefaultEnabled
  /\ active_goals = SelectSeq(DefaultGoalIds, LAMBDA g : DefaultEnabled[g])
  /\ gm_calls = 0
  /\ gm_last = [context |-> GoalContext(FALSE, 0, FALSE), result |-> "none"]

(***************************************************************************)
(* The components at rest: what a specification of one component keeps     *)
(* the others at.                                                          *)
(***************************************************************************)
\* the classifier harness at rest
ClIdle ==
  /\ cl_situation = Situation(<<>>, MaxHealth, {})
  /\ cl_goals = {}
  /\ cl_variant = "none"
  /\ cl_result = "none"

\* the complexity harness at rest
CxIdle == cx_context = {} /\ cx_goal = "explore_and_map" /\ cx_result = -1

RtIdle ==
  /\ situation_responses = SituationResponses0
  /\ decision_stats = [instant_lookups |-> 0, small_brain_calls |-> 0,
                       strategic_calls |-> 0]
  /\ rt_calls = 0
  /\ rt_last = [tier |-> "none", category |-> "none", result |-> NoneVal,
                backend_calls |-> 0, rag_queries |-> 0]

DmIdle ==
  /\ now = ClockStart
  /\ remote_available = FALSE
  /\ complex_decision_threshold = 7
  /\ last_remote_call = 0
  /\ remote_call_cooldown = 60
  /\ is_openhermes = FALSE
  /\ dm_calls = 0
  /\ dm_last = [goal |-> "none", complexity |-> 0, strategic |-> "not_sent",
                local |-> "not_called", plan |-> NoneVal]

\* main_bot_enhanced GoalManager.__init__: the goal ids in dict order
EnhGoalIds ==
  <<"do_public_events", "manage_inventory", "fishing", "daily_challenges",
    "vendor_rounds", "explore_and_map">>

EnhGoalIdSet == {EnhGoalIds[i] : i \in 1..Len(EnhGoalIds)}

\* main_bot_enhanced GoalManager.__init__: the priorities
EnhGoalPriority ==
  [do_public_events |-> 9, manage_inventory |-> 7, fishing |-> 4,
   daily_challenges |-> 6, vendor_rounds |-> 5, explore_and_map |-> 2]

\* IntelligentFallout76AI.__init__
EnIdle ==
  /\ en_now = ClockStart
  /\ en_enabled = [g \in EnhGoalIdSet |-> g = "explore_and_map"]
  /\ en_stats = [decisions_made |-> 0, reflex_decisions |-> 0,
                 strategic_decisions |-> 0, local_decisions |-> 0,
                 last_strategic_think |-> 0]
  /\ consecutive_failures = 0
  /\ en_last = [tier |-> "none", reflex |-> "None", complex |-> FALSE,
                goal |-> "None", request_sent |-> FALSE, action |-> "none"]

\* ActionController.__init__ and main_bot's shared_state: nothing written yet
AcIdle ==
  /\ device_events = <<>>
  /\ execution_count = 0
  /\ ex_calls = 0
  /\ ex_last = [op |-> "none", action |-> "None", returned |-> "None",
                controller_calls |-> <<>>, rejected |-> FALSE]

\* the main_loop threads that can exist
LoopThreads == 1..MaxLoopThreads

\* IntelligentF76AI.__init__ (main_bot.py): not running, no loop thread yet
MbIdle ==
  /\ running = FALSE
  /\ paused = FALSE
  /\ game_active = TRUE
  /\ cmd_pc = "idle"
  /\ loop_pc = [t \in LoopThreads |-> "unborn"]
  /\ cycle_count = [t \in LoopThreads |-> 0]
  /\ seen_active = [t \in LoopThreads |-> TRUE]
  /\ mb_last = [thread |-> 0, outcome |-> "none"]
  /\ status = "Idle"

\* the asyncio execution loops before their first cycle
LpIdle ==
  /\ lp_loop = "none"
  /\ lp_game_state = [game_active |-> FALSE]
  /\ lp_goals_active = FALSE
  /\ lp_outcome = "none"
  /\ lp_cycles = 0

\* the extraction harness at rest
JsIdle ==
  /\ js_text = <<>>
  /\ js_client = "none"
  /\ js_plan = NoneVal
  /\ js_first = NoneVal

\* the model clients at rest: no client constructed for the harness
BrIdle ==
  /\ br_client = "none"
  /\ brain_failures = 0
  /\ br_calls = 0
  /\ br_last = [op |-> "none", response |-> "none", request_sent |-> FALSE,
                origin |-> "none", plan |-> NoneVal, failures_before |-> 0]
  /\ br_history = [failed |-> 0, raised |-> 0, degraded_calls |-> 0]

\* no make_decision call in progress
DcIdle ==
  /\ dc_pc = "idle"
  /\ dc_wait = 0
  /\ dc_backends = [strategic |-> "answers", local |-> "answers"]
  /\ dc_call = [goal |-> "none", complexity |-> 0, strategic |-> "not_sent"]

\* main_game_loop before its first cycle
GlIdle ==
  /\ gl_pc = "top"
  /\ gl_tested = DefaultEnabled
  /\ gl_cycles = 0
  /\ gl_last = [tested |-> DefaultEnabled, used |-> DefaultEnabled, goal |-> "none"]

\* a key that is not in F76GoalManager.goals
Absent == [type |-> "absent", enabled |-> FALSE]

\* F76GoalManager.setup_default_goals: the three built-in goals
BuiltinF76Goals == {"explore_safely", "collect_junk", "public_events"}

\* goal ids an operator can send to the smart-goal endpoints
CustomGoalIds == {"farm_lead", "find_vendor"}

F76GoalIds == BuiltinF76Goals \cup CustomGoalIds

setup_default_goals ==
  [g \in F76GoalIds |->
     IF g \in BuiltinF76Goals
     THEN [type |-> "builtin", enabled |-> (g = "explore_safely")]
     ELSE Absent]

WgIdle ==
  /\ wg_goals = setup_default_goals
  /\ wg_calls = 0
  /\ wg_last = [op |-> "none", goal_id |-> "none", answer |-> "none"]

\* config.get("kobold_server_url", "http://100.64.150.78:5001")
DefaultServerUrl == "http://100.64.150.78:5001"

CfIdle ==
  /\ remote_server_url = DefaultServerUrl
  /\ cf_detected = "unreachable"
  /\ cf_tests = 0

\* faulty variant: the table entry itself is tagged and returned (no .copy())
get_instant_response_no_copy(table, situation_type) ==
  IF situation_type \in DOMAIN table
  THEN [response |-> dict_set(table[situation_type], "lookup_type", "instant_situation"),
        table |-> [table EXCEPT ![situation_type] =
                     dict_set(table[situation_type], "lookup_type", "instant_situation")]]
  ELSE [response |-> NoneVal, table |-> table]

\* FastRAGSystem.get_instant_response: the response and the table after the
\* call (the entry is copied before it is tagged)
get_instant_response(table, situation_type) ==
  IF situation_type \in DOMAIN table
  THEN [response |-> dict_set(table[situation_type], "lookup_type", "instant_situation"),
        table |-> table]
  ELSE [response |-> NoneVal, table |-> table]

\* FastRAGSystem.get_goal_procedure
get_goal_procedure(goal_id, context) ==
  IF goal_id \in DOMAIN GoalProcedures /\ context \in DOMAIN GoalProcedures[goal_id]
  THEN dict_set(dict_set(GoalProcedures[goal_id][context],
                         "lookup_type", "goal_procedure"), "goal", goal_id)
  ELSE NoneVal

(***************************************************************************)
(* SmartDecisionRouter and HybridRAGBrain                                  *)
(***************************************************************************)
\* SmartDecisionRouter._extract_goal_context
extract_goal_context(situation, goal_id) ==
  IF goal_id = "fishing"
  THEN (IF situation.near_water THEN "at_water"
        ELSE IF situation.has_fish THEN "has_fish" ELSE "no_water")
  ELSE IF goal_id = "inventory_management"
  THEN (IF situation.overweight THEN "overweight"
        ELSE IF situation.vendor_nearby THEN "vendor_nearby" ELSE "junk_visible")
  ELSE IF goal_id = "public_events"
  THEN (IF situation.event_active THEN "event_active"
        ELSE IF situation.event_complete THEN "event_complete" ELSE "event_marker")
  ELSE "general"

\* the goals of the list that have a procedure for the situation, in list order
ProcedureHits(situation, goals) ==
  {i \in 1..Len(goals) :
     get_goal_procedure(goals[i], extract_goal_context(situation, goals[i])) # NoneVal}

FirstHit(hits) == CHOOSE i \in hits : \A j \in hits : i <= j

\* faulty variant: the instant lookup is not counted
route_decision_uncounted(situation, goals, table, stats) ==
  LET situation_type == classify_situation(situation, goals)
      instant == get_instant_response(table, situation_type)
  IN  [result |-> instant.response, tier |-> "instant", category |-> situation_type,
       table |-> instant.table, stats |-> stats]

\* SmartDecisionRouter.route_decision: the result, the tier that produced it,
\* and the lookup table and decision_stats after the call
route_decision(situation, goals, table, stats) ==
  LET situation_type == classify_situation(situation, goals)
      instant == get_instant_response(table, situation_type)
      hits == ProcedureHits(situation, goals)
  IN  IF instant.response # NoneVal
      THEN [result |-> instant.response, tier |-> "instant",
            category |-> situation_type, table |-> instant.table,
            stats |-> [stats EXCEPT !.instant_lookups = @ + 1]]
      ELSE IF hits # {}
      THEN [result |-> get_goal_procedure(goals[FirstHit(hits)],
                         extract_goal_context(situation, goals[FirstHit(hits)])),
            tier |-> "goal_procedure", category |-> situation_type,
            table |-> instant.table,
            stats |-> [stats EXCEPT !.instant_lookups = @ + 1]]
      ELSE [result |-> [needs_strategic |-> TRUE], tier |-> "needs_strategic",
            category |-> situation_type, table |-> instant.table, stats |-> stats]

\* HybridRAGBrain._is_complex_situation
is_complex_situation(situation, goals) ==
  \/ Len(situation.detected_objects) > 3
  \/ \E i \in 1..Len(goals) : goals[i] \in {"public_events", "inventory_management"}
  \/ situation.health < 50 /\ situation.detected_objects # <<>>

RouterGoalIds == {"fishing", "public_events", "explore"}
RouterGoalLists == UNION {[1..n -> RouterGoalIds] : n \in 0..MaxRouterGoals}
RouterFlags == {"event_active", "stuck", "near_water", "has_fish", "overweight",
                "vendor_nearby", "event_complete"}
RouterFlagSets == {f \in SUBSET RouterFlags : Cardinality(f) <= 1}
RouterObjectLists ==
  {o \in ObjectLists : Len(o) <= 1} \cup {[i \in 1..4 |-> "tree"]}
RouterHealths == {20, MaxHealth}
\* what a model backend may answer
BrainPlans == {[action |-> "FORWARD", source |-> "brain"], NoneVal}

\* HybridRAGBrain.make_decision: an answer of the router (instant lookup or
\* goal procedure) is returned as it is; otherwise a complex situation goes to
\* the knowledge store and the strategic brain, a simple one to the
\* lightweight brain
HybridMakeDecision ==
  /\ rt_calls < MaxRouterCalls
  /\ rt_calls' = rt_calls + 1
  /\ UNCHANGED not_rt
  /\ \E objs \in RouterObjectLists, h \in RouterHealths, f \in RouterFlagSets,
        goals \in RouterGoalLists :
        LET situation == Situation(objs, h, f)
            r == route_decision(situation, goals, situation_responses, decision_stats)
        IN  /\ situation_responses' = r.table
            /\ \/ /\ r.tier # "needs_strategic"
                  /\ decision_stats' = r.stats
                  /\ rt_last' = [tier |-> r.tier, category |-> r.category,
                                 result |-> r.result,
                                 backend_calls |-> 0, rag_queries |-> 0]
               \/ /\ r.tier = "needs_strategic"
                  /\ is_complex_situation(situation, goals)
                  /\ decision_stats' = r.stats
                  /\ \E plan \in BrainPlans :
                       rt_last' = [tier |-> "strategic_brain", category |-> r.category,
                                   result |-> plan,
                                   backend_calls |-> 1, rag_queries |-> 1]
               \/ /\ r.tier = "needs_strategic"
                  /\ ~is_complex_situation(situation, goals)
                  /\ decision_stats' = [r.stats EXCEPT !.small_brain_calls = @ + 1]
                  /\ \E plan \in BrainPlans :
                       rt_last' = [tier |-> "small_brain", category |-> r.category,
                                   result |-> plan,
                                   backend_calls |-> 1, rag_queries |-> 0]

RtInit == RtIdle /\ ClIdle /\ CxIdle /\ DmIdle /\ GmIdle /\ EnIdle /\ AcIdle /\ MbIdle /\ LpIdle /\ JsIdle /\ BrIdle /\ DcIdle /\ GlIdle /\ WgIdle /\ CfIdle

RtNext == HybridMakeDecision

SpecRouter == RtInit /\ [][RtNext]_vars

\* C8: Tier 0 instant lookup. A call whose situation category has an entry in
\* the lookup table returns that entry's plan (tagged instant_situation) without
\* any model backend call or knowledge store query, counts exactly one instant
\* lookup, and leaves the lookup table as it was.
C8_InstantLookup ==
  [][(rt_calls' = rt_calls + 1 /\ rt_last'.category \in DOMAIN situation_responses) =>
       /\ rt_last'.tier = "instant"
       /\ rt_last'.result =
            dict_set(SituationResponses0[rt_last'.category],
                     "lookup_type", "instant_situation")
       /\ rt_last'.backend_calls = 0 /\ rt_last'.rag_queries = 0
       /\ decision_stats' =
            [decision_stats EXCEPT !.instant_lookups = @ + 1]
       /\ situation_responses' = situation_responses
       /\ situation_responses' = SituationResponses0]_vars

C8_Witness ==
  /\ rt_calls = MaxRouterCalls
  /\ rt_last.tier = "instant"
  /\ rt_last.category = "low_health_combat"
  /\ rt_last.result.action = "BACKWARD"
  /\ decision_stats.instant_lookups = 2
  /\ decision_stats.small_brain_calls = 1

(***************************************************************************)
(* IntelligentDecisionMaker (comprehensive_fo76_ai.py)                     *)
(***************************************************************************)
ContextFlags == {"multiple_threats", "unknown_location", "inventory_full",
                 "low_resources"}

Min(a, b) == IF a <= b THEN a ELSE b

\* the unclamped weighted sum of _calculate_complexity, in tenths
complexity_sum(context, goal_id) ==
  (IF goal_id = "do_public_events" THEN 6
   ELSE IF goal_id = "manage_inventory" THEN 4
   ELSE IF goal_id = "fishing" THEN 2 ELSE 0)
  + (IF "multiple_threats" \in context THEN 3 ELSE 0)
  + (IF "unknown_location" \in context THEN 2 ELSE 0)
  + (IF "inventory_full" \in context THEN 2 ELSE 0)
  + (IF "low_resources" \in context THEN 2 ELSE 0)

\* faulty variant: the sum is returned without min(complexity, 1.0)
calculate_complexity_unclamped(context, goal_id) == complexity_sum(context, goal_id)

\* IntelligentDecisionMaker._calculate_complexity, in tenths
calculate_complexity(context, goal_id) == Min(complexity_sum(context, goal_id), 10)

\* faulty variant: goals without a branch of their own get no plan
fallback_decision_partial(goal_id) ==
  IF goal_id = "do_public_events"
  THEN [action |-> "JOIN_EVENT", duration |-> 10, reason |-> "event_active"]
  ELSE IF goal_id = "fishing"
  THEN [action |-> "CAST_LINE", duration |-> 50, reason |-> "fishing_goal"]
  ELSE IF goal_id = "manage_inventory"
  THEN [action |-> "OPEN_INVENTORY", duration |-> 10, reason |-> "inventory_management"]
  ELSE NoneVal

\* IntelligentDecisionMaker._fallback_decision
fallback_decision(goal_id) ==
  IF goal_id = "do_public_events"
  THEN [action |-> "JOIN_EVENT", duration |-> 10, reason |-> "event_active"]
  ELSE IF goal_id = "fishing"
  THEN [action |-> "CAST_LINE", duration |-> 50, reason |-> "fishing_goal"]
  ELSE IF goal_id = "manage_inventory"
  THEN [action |-> "OPEN_INVENTORY", duration |-> 10, reason |-> "inventory_management"]
  ELSE [action |-> "EXPLORE", duration |-> 30, reason |-> "default_action"]

\* the JSON object a backend answers with when it answers well
BackendPlan == [action |-> "FORWARD", duration |-> 20, reason |-> "model decision"]

\* What the local model call of _routine_decision can end in:
\*   ok      the response text holds a JSON object
\*   nojson  the response text holds no {...}
\*   badjson json.loads raises on the text between the braces
\*   error   local_client.generate raises (server down, timeout)
LocalOutcomes == {"ok", "nojson", "badjson", "error"}

\* IntelligentDecisionMaker._routine_decision: the plan returned
routine_decision(goal_id, local_outcome) ==
  IF local_outcome = "ok"
  THEN dict_set(BackendPlan, "source", "local_llm")
  ELSE fallback_decision(goal_id)

\* What the POST of _strategic_decision_kobold can end in:
\*   ok       status 200, the text holds a JSON object
\*   strategy_not_text  as ok, but decision['strategy'] cannot be sliced, so
\*            the summary line raises after last_remote_call was set
\*   nojson   status 200, no {...} in the text
\*   badjson  status 200, json.loads raises
\*   non200   another status code
\*   timeout  no answer within the timeout
\*   connerr  the connection fails
StrategicOutcomes == {"ok", "strategy_not_text", "nojson", "badjson", "non200",
                      "timeout", "connerr"}

\* the outcomes that raise inside the try block
StrategicRaises == {"strategy_not_text", "badjson", "timeout", "connerr"}

\* the outcomes that reach self.last_remote_call = time.time()
StrategicParsed == {"ok", "strategy_not_text"}

\* timeout=45 if self.is_openhermes else 30
strategic_timeout(openhermes) == IF openhermes THEN 45 ELSE 30

\* seconds the POST may take, by outcome
StrategicElapsed(outcome, openhermes) ==
  IF outcome = "timeout" THEN {strategic_timeout(openhermes)}
  ELSE IF outcome = "connerr" THEN {0}
  ELSE {0, 15}

\* faulty variant: the cooldown is not tested
use_strategic_no_cooldown(complexity, threshold, available, t, last_call, cooldown) ==
  complexity >= threshold /\ available

\* make_decision: the condition under which the strategic tier is taken
use_strategic(complexity, threshold, available, t, last_call, cooldown) ==
  complexity >= threshold /\ available /\ t - last_call >= cooldown

\* IntelligentDecisionMaker.__init__: the connection test runs first, then
\* the thresholds are set to their defaults
DmConstructed ==
  /\ now = ClockStart
  /\ remote_available \in BOOLEAN
  /\ complex_decision_threshold = 7
  /\ last_remote_call = 0
  /\ remote_call_cooldown = 60
  /\ is_openhermes = FALSE
  /\ dm_calls = 0
  /\ dm_last = [goal |-> "none", complexity |-> 0, strategic |-> "not_sent",
                local |-> "not_called", plan |-> NoneVal]

\* the contexts and goals make_decision is called with
DmContexts == {{}, {"multiple_threats"}, {"multiple_threats", "unknown_location"}}
DmGoals == {"do_public_events", "fishing", "explore_and_map"}

\* time passes between two calls
Tick ==
  /\ now + 15 <= MaxTime
  /\ now' = now + 15
  /\ UNCHANGED <<remote_available, complex_decision_threshold, last_remote_call,
                 remote_call_cooldown, is_openhermes, dm_calls, dm_last>>
  /\ UNCHANGED not_dm

\* IntelligentDecisionMaker.make_decision, the strategic condition false:
\* _routine_decision alone
MakeDecisionRoutine ==
  /\ dm_calls < MaxDMCalls
  /\ dm_calls' = dm_calls + 1
  /\ \E context \in DmContexts, goal_id \in DmGoals, local_outcome \in LocalOutcomes :
       LET complexity == calculate_complexity(context, goal_id)
       IN  /\ ~use_strategic(complexity, complex_decision_threshold, remote_available,
                             now, last_remote_call, remote_call_cooldown)
           /\ dm_last' = [goal |-> goal_id, complexity |-> complexity,
                          strategic |-> "not_sent", local |-> local_outcome,
                          plan |-> routine_decision(goal_id, local_outcome)]
  /\ UNCHANGED <<now, remote_available, last_remote_call,
                 complex_decision_threshold, remote_call_cooldown, is_openhermes>>
  /\ UNCHANGED not_dm

\* IntelligentDecisionMaker.make_decision, the strategic condition true:
\* _strategic_decision_kobold, which returns the parsed decision or falls
\* back to _routine_decision
MakeDecisionStrategic ==
  /\ dm_calls < MaxDMCalls
  /\ dm_calls' = dm_calls + 1
  /\ \E context \in DmContexts, goal_id \in DmGoals, local_outcome \in LocalOutcomes,
        outcome \in StrategicOutcomes :
       \E elapsed \in StrategicElapsed(outcome, is_openhermes) :
         LET complexity == calculate_complexity(context, goal_id)
             returned == outcome = "ok"
         IN  /\ use_strategic(complexity, complex_decision_threshold, remote_available,
                              now, last_remote_call, remote_call_cooldown)
             /\ now + elapsed <= MaxTime
             /\ now' = now + elapsed
             /\ last_remote_call' =
                  IF outcome \in StrategicParsed THEN now + elapsed
                                                 ELSE last_remote_call
             /\ remote_available' =
                  IF outcome \in StrategicRaises THEN FALSE ELSE remote_available
             /\ dm_last' = [goal |-> goal_id, complexity |-> complexity,
                            strategic |-> outcome,
                            local |-> IF returned THEN "not_called" ELSE local_outcome,
                            plan |-> IF returned
                                     THEN dict_set(dict_set(BackendPlan,
                                                     "source", "openhermes_strategic"),
                                                   "model", "OpenHermes-2.5-Mistral-7B")
                                     ELSE routine_decision(goal_id, local_outcome)]
  /\ UNCHANGED <<complex_decision_threshold, remote_call_cooldown, is_openhermes>>
  /\ UNCHANGED not_dm

DmInit == DmConstructed /\ ClIdle /\ RtIdle /\ CxIdle /\ GmIdle /\ EnIdle /\ AcIdle /\ MbIdle /\ LpIdle /\ JsIdle /\ BrIdle /\ DcIdle /\ GlIdle /\ WgIdle /\ CfIdle

DmNext == Tick \/ MakeDecisionRoutine \/ MakeDecisionStrategic

SpecDM == DmInit /\ [][DmNext]_vars

\* a backend request that did not give a plan
FailedStrategic == StrategicOutcomes \ {"ok"}
FailedLocal == LocalOutcomes \ {"ok"}

\* C1: totality of the decision router. When every backend request of a
\* make_decision call fails (the strategic one, if it was sent, and the local
\* one), the call returns a plan, and it is the plan of _fallback_decision for
\* the goal.
C1_Totality ==
  (dm_calls > 0 /\ dm_last.strategic \in FailedStrategic \cup {"not_sent"}
     /\ dm_last.local \in FailedLocal) =>
       /\ dm_last.plan # NoneVal
       /\ "action" \in DOMAIN dm_last.plan
       /\ dm_last.plan = fallback_decision(dm_last.goal)

C1_Witness ==
  /\ dm_calls > 0
  /\ dm_last.strategic = "timeout"
  /\ dm_last.local = "error"
  /\ dm_last.goal = "fishing"
  /\ dm_last.plan.action = "CAST_LINE"

\* C5: the strategic tier is guarded by three conditions. A make_decision call
\* sends a strategic request exactly when the complexity is at least the
\* threshold, the remote backend is marked available and the cooldown has
\* elapsed since last_remote_call; otherwise the local tier is called. So no
\* strategic request is sent before last_remote_call + cooldown.
C5_StrategicGuard ==
  [][(dm_calls' = dm_calls + 1) =>
       /\ (dm_last'.strategic # "not_sent") <=>
            (/\ dm_last'.complexity >= complex_decision_threshold
             /\ remote_available
             /\ now - last_remote_call >= remote_call_cooldown)
       /\ (dm_last'.strategic = "not_sent") => (dm_last'.local # "not_called")
       /\ (dm_last'.strategic # "not_sent" /\ last_remote_call > 0) =>
             (now >= last_remote_call + remote_call_cooldown)]_vars

\* within the cooldown of an earlier strategic success, a complex decision
\* with the backend available went to the local tier
C5_Witness ==
  /\ dm_calls >= 2
  /\ last_remote_call > 0
  /\ now - last_remote_call < remote_call_cooldown
  /\ remote_available
  /\ dm_last.complexity >= complex_decision_threshold
  /\ dm_last.strategic = "not_sent"
  /\ dm_last.local = "ok"

\* the tier that produced the plan of the last make_decision call
producing_tier(last) ==
  IF last.strategic = "ok" THEN "strategic"
  ELSE IF last.local = "ok" THEN "local"
  ELSE "fallback"

\* C19: every plan the decision router returns carries a provenance tag for
\* the tier that produced it. After make_decision returns, the plan has a
\* 'source' field; it is the strategic tag for a plan of the strategic tier,
\* the local tag for a plan of the local tier, and another tag for a plan of
\* the fallback table.
C19_ProvenanceTag ==
  dm_calls > 0 =>
    /\ "source" \in DOMAIN dm_last.plan
    /\ producing_tier(dm_last) = "strategic" =>
         dm_last.plan.source = "openhermes_strategic"
    /\ producing_tier(dm_last) = "local" => dm_last.plan.source = "local_llm"
    /\ producing_tier(dm_last) = "fallback" =>
         dm_last.plan.source \notin {"openhermes_strategic", "local_llm"}

\* C20: failure handling of the strategic tier. Every failed strategic
\* request falls through to the local tier, and the backend is marked
\* unavailable only after consecutive failures, not on a single one: when a
\* make_decision call turns remote_available off, the make_decision call
\* before it had a failed strategic request as well.
C20_UnavailableOnlyAfterConsecutiveFailures ==
  [][(dm_calls' = dm_calls + 1) =>
       /\ dm_last'.strategic \in FailedStrategic => dm_last'.local # "not_called"
       /\ (remote_available /\ ~remote_available') =>
            dm_last.strategic \in FailedStrategic]_vars

(***************************************************************************)
(* Complexity harness: Init draws a context and a goal, one step applies   *)
(* _calculate_complexity.                                                  *)
(***************************************************************************)
CxInit ==
  /\ cx_context \in SUBSET ContextFlags
  /\ cx_goal \in GoalIdSet
  /\ cx_result = -1
  /\ ClIdle /\ RtIdle /\ DmIdle /\ GmIdle /\ EnIdle /\ AcIdle /\ MbIdle /\ LpIdle /\ JsIdle /\ BrIdle /\ DcIdle /\ GlIdle /\ WgIdle /\ CfIdle

CallCalculateComplexity ==
  /\ cx_result = -1
  /\ cx_result' = calculate_complexity(cx_context, cx_goal)
  /\ UNCHANGED <<cx_context, cx_goal>>
  /\ UNCHANGED not_cx

CxNext == CallCalculateComplexity

SpecComplexity == CxInit /\ [][CxNext]_vars

\* C7: the complexity score is within [0,1] (0..10 in tenths): it is the goal
\* base weight plus 3, 2, 2, 2 for the flags that are set, clamped at 10.
C7_ComplexityClamped ==
  (cx_result # -1) =>
     /\ cx_result >= 0 /\ cx_result <= 10
     /\ cx_result = Min(10, complexity_sum(cx_context, cx_goal))

\* the sum exceeds 1.0 and the result is 1.0
C7_Witness ==
  /\ cx_result = 10
  /\ cx_goal = "do_public_events"
  /\ cx_context = ContextFlags
  /\ complexity_sum(cx_context, cx_goal) = 15

(***************************************************************************)
(* GoalManager (comprehensive_fo76_ai.py): operations                      *)
(***************************************************************************)
\* list.remove(x): the list without the first occurrence of x
RECURSIVE list_remove(_, _)
list_remove(list, x) ==
  IF list = <<>> THEN <<>>
  ELSE IF Head(list) = x THEN Tail(list)
  ELSE <<Head(list)>> \o list_remove(Tail(list), x)

\* x in list
in_list(x, list) == \E i \in 1..Len(list) : list[i] = x

\* faulty variant: an enabled goal is appended even when it is in the list
set_goal_enabled_duplicating(enabled_map, active, goal_id, enabled) ==
  IF goal_id \in DOMAIN enabled_map
  THEN [enabled |-> [enabled_map EXCEPT ![goal_id] = enabled],
        active |-> IF enabled THEN Append(active, goal_id)
                   ELSE IF in_list(goal_id, active)
                   THEN list_remove(active, goal_id)
                   ELSE active]
  ELSE [enabled |-> enabled_map, active |-> active]

\* GoalManager.set_goal_enabled: the flags and the active list after the call
set_goal_enabled(enabled_map, active, goal_id, enabled) ==
  IF goal_id \in DOMAIN enabled_map
  THEN [enabled |-> [enabled_map EXCEPT ![goal_id] = enabled],
        active |-> IF enabled /\ ~in_list(goal_id, active)
                   THEN Append(active, goal_id)
                   ELSE IF ~enabled /\ in_list(goal_id, active)
                   THEN list_remove(active, goal_id)
                   ELSE active]
  ELSE [enabled |-> enabled_map, active |-> active]

\* GoalManager._goal_conditions_met; weight_ratio and the weight_threshold
\* condition (0.8) are in tenths
goal_conditions_met(goal_id, context) ==
  IF goal_id = "do_public_events" THEN context.public_event_active
  ELSE IF goal_id = "manage_inventory" THEN context.weight_ratio >= 8
  ELSE IF goal_id = "fishing"
  THEN ~context.public_event_active /\ context.at_water
  ELSE TRUE

\* list.sort(key=priority, reverse=True) is stable: a goal goes behind the
\* goals of the same or a higher priority that precede it
RECURSIVE insert_by_priority(_, _)
insert_by_priority(sorted, goal_id) ==
  IF sorted = <<>> THEN <<goal_id>>
  ELSE IF GoalPriority[Head(sorted)] >= GoalPriority[goal_id]
  THEN <<Head(sorted)>> \o insert_by_priority(Tail(sorted), goal_id)
  ELSE <<goal_id>> \o sorted

RECURSIVE sort_by_priority(_)
sort_by_priority(list) ==
  IF list = <<>> THEN <<>>
  ELSE insert_by_priority(sort_by_priority(SubSeq(list, 1, Len(list) - 1)),
                          list[Len(list)])

\* faulty variant: every goal of the registry is a candidate, enabled or not
get_highest_priority_goal_all(active, context) ==
  LET eligible_goals == SelectSeq(DefaultGoalIds,
                                  LAMBDA g : goal_conditions_met(g, context))
  IN  IF eligible_goals = <<>> THEN "None"
      ELSE Head(sort_by_priority(eligible_goals))

\* GoalManager.get_highest_priority_goal: the id of the goal returned, "None"
\* when it returns None
get_highest_priority_goal(active, context) ==
  LET eligible_goals == SelectSeq(active, LAMBDA g : goal_conditions_met(g, context))
  IN  IF eligible_goals = <<>> THEN "None"
      ELSE Head(sort_by_priority(eligible_goals))

\* the goal ids the control surface sends: registry goals and one unknown id
ToggledGoalIds == {"do_public_events", "manage_inventory", "fishing",
                   "camp_maintenance", "explore_and_map", "no_such_goal"}

GoalContexts == {GoalContext(e, w, a) : e \in BOOLEAN, w \in {7, 8}, a \in BOOLEAN}

\* ComprehensiveAI.set_goal_state -> GoalManager.set_goal_enabled
SetGoalEnabled ==
  \E goal_id \in ToggledGoalIds, enabled \in BOOLEAN :
    LET r == set_goal_enabled(goal_enabled, active_goals, goal_id, enabled)
    IN  /\ goal_enabled' = r.enabled
        /\ active_goals' = r.active
        /\ UNCHANGED <<gm_calls, gm_last>>
        /\ UNCHANGED not_gm

\* GoalManager.get_highest_priority_goal(current_context)
GetHighestPriorityGoal ==
  /\ gm_calls < MaxGoalCalls
  /\ gm_calls' = gm_calls + 1
  /\ \E context \in GoalContexts :
       gm_last' = [context |-> context,
                   result |-> get_highest_priority_goal(active_goals, context)]
  /\ UNCHANGED <<goal_enabled, active_goals>>
  /\ UNCHANGED not_gm

GmInit == GmIdle /\ ClIdle /\ RtIdle /\ CxIdle /\ DmIdle /\ EnIdle /\ AcIdle /\ MbIdle /\ LpIdle /\ JsIdle /\ BrIdle /\ DcIdle /\ GlIdle /\ WgIdle /\ CfIdle

GmNext == SetGoalEnabled \/ GetHighestPriorityGoal

SpecGoals == GmInit /\ [][GmNext]_vars

\* position of a goal in the registry (insertion order)
RegistryIndex(goal_id) == CHOOSE i \in 1..Len(DefaultGoalIds) : DefaultGoalIds[i] = goal_id

\* the eligible goals of a call: enabled, with their conditions met
EligibleGoals(context) ==
  {g \in GoalIdSet : goal_enabled[g] /\ goal_conditions_met(g, context)}

\* C9: insertion-order tie-break. get_highest_priority_goal returns an
\* eligible goal of maximal priority, and among the eligible goals of that
\* priority the one inserted earliest into the registry, whatever the order of
\* the enable and disable calls was.
C9_InsertionOrderTieBreak ==
  [][(gm_calls' = gm_calls + 1) =>
       LET eligible == EligibleGoals(gm_last'.context)
       IN  IF eligible = {} THEN gm_last'.result = "None"
           ELSE /\ gm_last'.result \in eligible
                /\ \A g \in eligible :
                     \/ GoalPriority[g] < GoalPriority[gm_last'.result]
                     \/ /\ GoalPriority[g] = GoalPriority[gm_last'.result]
                        /\ RegistryIndex(gm_last'.result) <= RegistryIndex(g)]_vars

\* C10 as claimed: the enablement flag is the only gate. Every enabled goal
\* is a candidate, so the goal returned is an enabled goal of the highest
\* priority among all enabled goals (None only when no goal is enabled).
C10_EnabledIsOnlyGate ==
  [][(gm_calls' = gm_calls + 1) =>
       LET enabled == {g \in GoalIdSet : goal_enabled[g]}
       IN  IF enabled = {} THEN gm_last'.result = "None"
           ELSE /\ gm_last'.result \in enabled
                /\ \A g \in enabled :
                     GoalPriority[g] <= GoalPriority[gm_last'.result]]_vars

\* the conditions of the three conditional goals, as the amended C10 states them
C10_ConditionHolds(g, context) ==
  /\ (g = "do_public_events") => context.public_event_active
  /\ (g = "manage_inventory") => context.weight_ratio >= 8
  /\ (g = "fishing") => (~context.public_event_active /\ context.at_water)

\* C10 amended: the enablement flag is a necessary gate, not the only one. No
\* disabled goal is ever returned; the goal returned is of the highest
\* priority among the enabled goals whose condition holds in the context
\* (an event for do_public_events, weight_ratio >= 0.8 for manage_inventory,
\* water and no event for fishing), and None is returned exactly when there
\* is no such goal.
C10_EnabledAndConditionsGate ==
  [][(gm_calls' = gm_calls + 1) =>
       LET candidates == {g \in GoalIdSet :
                            goal_enabled[g] /\ C10_ConditionHolds(g, gm_last'.context)}
       IN  IF candidates = {} THEN gm_last'.result = "None"
           ELSE /\ gm_last'.result \in candidates
                /\ goal_enabled[gm_last'.result]
                /\ \A g \in candidates :
                     GoalPriority[g] <= GoalPriority[gm_last'.result]]_vars

\* an enabled goal of higher priority was passed over because its condition
\* did not hold, while a disabled goal of higher priority still was not returned
C10_Witness ==
  /\ gm_calls > 0
  /\ goal_enabled["do_public_events"]
  /\ ~gm_last.context.public_event_active
  /\ goal_enabled["fishing"] /\ gm_last.context.at_water
  /\ ~goal_enabled["manage_inventory"] /\ gm_last.context.weight_ratio >= 8
  /\ gm_last.result = "fishing"

\* C11: the default exploration goal is permanently enabled. After every
\* sequence of set_goal_enabled calls explore_and_map is still enabled and in
\* active_goals, so the goal substituted when none is eligible is enabled.
C11_DefaultGoalAlwaysEnabled ==
  /\ goal_enabled["explore_and_map"]
  /\ in_list("explore_and_map", active_goals)

\* active_goals holds exactly the enabled goals, each once, and a call with an
\* unknown id would change nothing
RegistryConsistent(enabled_map, active) ==
  /\ {active[i] : i \in 1..Len(active)} = {g \in DOMAIN enabled_map : enabled_map[g]}
  /\ Len(active) = Cardinality({g \in DOMAIN enabled_map : enabled_map[g]})
  /\ \A e \in BOOLEAN :
       set_goal_enabled(enabled_map, active, "no_such_goal", e)
         = [enabled |-> enabled_map, active |-> active]

\* C28: registry consistency. After any sequence of set_goal_enabled calls on
\* known and unknown ids, active_goals contains exactly the ids of the goals
\* whose enabled flag is true, each exactly once, and a call with an unknown
\* id changes nothing; the next get_highest_priority_goal call sees the
\* toggles: it returns an enabled goal whose conditions are met, and None only
\* when no enabled goal has its conditions met.
C28_RegistryConsistency ==
  [][/\ RegistryConsistent(goal_enabled, active_goals)
     /\ RegistryConsistent(goal_enabled', active_goals')
     /\ (gm_calls' = gm_calls + 1) =>
          IF gm_last'.result = "None"
          THEN \A g \in DOMAIN goal_enabled :
                 goal_enabled[g] => ~goal_conditions_met(g, gm_last'.context)
          ELSE /\ goal_enabled[gm_last'.result]
               /\ goal_conditions_met(gm_last'.result, gm_last'.context)]_vars

\* C28 witness: after toggles, the default goal is off, fishing is the only
\* enabled goal, and get_highest_priority_goal has returned it
C28_Witness ==
  /\ ~goal_enabled["explore_and_map"]
  /\ active_goals = <<"fishing">>
  /\ gm_calls > 0
  /\ gm_last.result = "fishing"

(***************************************************************************)
(* IntelligentFallout76AI (main_bot_enhanced.py): the loop cycle of        *)
(* start_intelligent_system with make_intelligent_decision                 *)
(***************************************************************************)
\* FastDecisionMaker.survival_reflexes: the action of each reflex
SurvivalReflexAction ==
  [enemy_close_health_low |-> "BACKWARD", enemy_detected_healthy |-> "VATS",
   loot_safe_nearby |-> "INTERACT", stuck_detected |-> "BACKWARD",
   path_clear_exploring |-> "FORWARD"]

\* main_bot_enhanced GoalManager.get_active_goals
get_active_goals(enabled_map) == SelectSeq(EnhGoalIds, LAMBDA g : enabled_map[g])

\* main_bot_enhanced GoalManager.get_highest_priority_goal: max() returns the
\* first goal of the highest priority in dict order, None without enabled goal
enhanced_get_highest_priority_goal(enabled_map) ==
  LET active == get_active_goals(enabled_map)
  IN  IF active = <<>> THEN "None"
      ELSE active[CHOOSE i \in 1..Len(active) :
                    /\ \A j \in 1..Len(active) :
                         EnhGoalPriority[active[j]] <= EnhGoalPriority[active[i]]
                    /\ \A j \in 1..(i - 1) :
                         EnhGoalPriority[active[j]] < EnhGoalPriority[active[i]]]

\* IntelligentFallout76AI._situation_is_complex
situation_is_complex(game_state) ==
  LET threats == {i \in 1..Len(game_state.detected_objects) :
                    label_has("person", game_state.detected_objects[i])}
  IN  \/ Len(game_state.detected_objects) > 3
      \/ Cardinality(threats) > 1
      \/ game_state.health < 50 /\ threats # {}

\* faulty variant: strategic thinking only when the 30 s have passed
needs_strategic_cooldown_only(current_time, last_think, game_state, current_goal) ==
  current_time - last_think > 30

\* make_intelligent_decision: needs_strategic
needs_strategic(current_time, last_think, game_state, current_goal) ==
  \/ current_time - last_think > 30
  \/ situation_is_complex(game_state)
  \/ current_goal # "None" /\ EnhGoalPriority[current_goal] >= 7

\* LocalBrain.get_plan: with max_failures_before_fallback (2) consecutive
\* failures no request is sent and the smart fallback plan is returned;
\* otherwise an answer with results gives a plan and resets the counter, and
\* anything else counts a failure and gives the smart fallback plan
local_brain_get_plan(failures, outcome) ==
  IF failures >= 2
  THEN [origin |-> "smart_fallback", failures |-> failures, request_sent |-> FALSE]
  ELSE IF outcome = "answered"
  THEN [origin |-> "model", failures |-> 0, request_sent |-> TRUE]
  ELSE [origin |-> "smart_fallback", failures |-> failures + 1, request_sent |-> TRUE]

\* IntelligentFallout76AI._simple_local_decision: the action chosen
simple_local_decision(game_state, active) ==
  IF in_list("fishing", active) THEN "INTERACT"
  ELSE IF game_state.detected_objects # <<>> THEN "INTERACT"
  ELSE "FORWARD"

EnhToggledGoals == {"manage_inventory", "fishing", "explore_and_map"}
EnhObjectLists ==
  {<<>>, <<"tree">>, <<"person">>, <<"container">>, <<"person", "person">>,
   <<"person", "container">>, [i \in 1..4 |-> "tree"]}
\* capture_game_state: the health it reports
CapturedHealth == 100
BrainOutcomes == {"answered", "error"}

\* faulty variant: the strategic decision is not counted
strategic_stats_uncounted(stats, current_time) ==
  [stats EXCEPT !.last_strategic_think = current_time]

\* make_intelligent_decision, TIER 2 taken: the stats after it
strategic_stats(stats, current_time) ==
  [stats EXCEPT !.strategic_decisions = @ + 1,
                !.last_strategic_think = current_time]

\* time passes between two cycles
EnhTick ==
  /\ en_now + 15 <= MaxTime
  /\ en_now' = en_now + 15
  /\ UNCHANGED <<en_enabled, en_stats, consecutive_failures, en_last>>
  /\ UNCHANGED not_en

\* IntelligentFallout76AI.set_goal_enabled (from the web interface)
EnhSetGoalEnabled ==
  /\ \E goal_id \in EnhToggledGoals, enabled \in BOOLEAN :
       en_enabled' = [en_enabled EXCEPT ![goal_id] = enabled]
  /\ UNCHANGED <<en_now, en_stats, consecutive_failures, en_last>>
  /\ UNCHANGED not_en

\* a loop cycle that decides nothing: no goal is enabled, or the game is not
\* active
CycleNoDecision ==
  /\ \/ get_active_goals(en_enabled) = <<>>
     \/ \E is_active \in BOOLEAN : ~is_active
  /\ en_last' = [tier |-> "none", reflex |-> "None", complex |-> FALSE,
                 goal |-> "None", request_sent |-> FALSE, action |-> "none"]
  /\ UNCHANGED <<en_now, en_enabled, en_stats, consecutive_failures>>
  /\ UNCHANGED not_en

\* a loop cycle whose decision is a reflex (TIER 1)
CycleReflex ==
  /\ en_stats.decisions_made < MaxEnhCycles
  /\ get_active_goals(en_enabled) # <<>>
  /\ \E objs \in EnhObjectLists :
       LET game_state == Situation(objs, CapturedHealth, {})
           active == get_active_goals(en_enabled)
           reflex == check_instant_response(game_state,
                        {active[i] : i \in 1..Len(active)})
       IN  /\ reflex # "None"
           /\ en_stats' = [en_stats EXCEPT !.reflex_decisions = @ + 1,
                                           !.decisions_made = @ + 1]
           /\ en_last' = [tier |-> "REFLEX", reflex |-> reflex,
                          complex |-> situation_is_complex(game_state),
                          goal |-> enhanced_get_highest_priority_goal(en_enabled),
                          request_sent |-> FALSE,
                          action |-> SurvivalReflexAction[reflex]]
  /\ UNCHANGED <<en_now, en_enabled, consecutive_failures>>
  /\ UNCHANGED not_en

\* a loop cycle whose decision comes from _strategic_decision (TIER 2): the
\* brain's get_plan gives a plan, from the model or from its smart fallback
CycleStrategic ==
  /\ en_stats.decisions_made < MaxEnhCycles
  /\ get_active_goals(en_enabled) # <<>>
  /\ \E objs \in EnhObjectLists, outcome \in BrainOutcomes,
        elapsed \in {0, 15} :
       LET game_state == Situation(objs, CapturedHealth, {})
           active == get_active_goals(en_enabled)
           current_goal == enhanced_get_highest_priority_goal(en_enabled)
           reflex == check_instant_response(game_state,
                        {active[i] : i \in 1..Len(active)})
           got == local_brain_get_plan(consecutive_failures, outcome)
       IN  /\ reflex = "None"
           /\ needs_strategic(en_now, en_stats.last_strategic_think,
                              game_state, current_goal)
           /\ current_goal # "None"
           /\ en_now + elapsed <= MaxTime
           /\ en_now' = IF got.request_sent THEN en_now + elapsed ELSE en_now
           /\ consecutive_failures' = got.failures
           /\ en_stats' = [strategic_stats(en_stats, en_now)
                             EXCEPT !.decisions_made = @ + 1]
           /\ en_last' = [tier |-> "STRATEGIC", reflex |-> reflex,
                          complex |-> situation_is_complex(game_state),
                          goal |-> current_goal,
                          request_sent |-> got.request_sent,
                          action |-> got.origin]
  /\ UNCHANGED en_enabled
  /\ UNCHANGED not_en

\* a loop cycle whose decision is _simple_local_decision (TIER 3)
CycleLocal ==
  /\ en_stats.decisions_made < MaxEnhCycles
  /\ get_active_goals(en_enabled) # <<>>
  /\ \E objs \in EnhObjectLists :
       LET game_state == Situation(objs, CapturedHealth, {})
           active == get_active_goals(en_enabled)
           current_goal == enhanced_get_highest_priority_goal(en_enabled)
           reflex == check_instant_response(game_state,
                        {active[i] : i \in 1..Len(active)})
       IN  /\ reflex = "None"
           /\ \/ ~needs_strategic(en_now, en_stats.last_strategic_think,
                                  game_state, current_goal)
              \/ current_goal = "None"
           /\ en_stats' = [en_stats EXCEPT !.local_decisions = @ + 1,
                                           !.decisions_made = @ + 1]
           /\ en_last' = [tier |-> "LOCAL", reflex |-> reflex,
                          complex |-> situation_is_complex(game_state),
                          goal |-> current_goal, request_sent |-> FALSE,
                          action |-> simple_local_decision(game_state, active)]
  /\ UNCHANGED <<en_now, en_enabled, consecutive_failures>>
  /\ UNCHANGED not_en

EnInit == EnIdle /\ ClIdle /\ RtIdle /\ CxIdle /\ DmIdle /\ GmIdle /\ AcIdle /\ MbIdle /\ LpIdle /\ JsIdle /\ BrIdle /\ DcIdle /\ GlIdle /\ WgIdle /\ CfIdle

EnNext ==
  \/ EnhTick
  \/ EnhSetGoalEnabled
  \/ CycleNoDecision
  \/ CycleReflex
  \/ CycleStrategic
  \/ CycleLocal

SpecEnh == EnInit /\ [][EnNext]_vars

TierCounterSum(stats) ==
  stats.reflex_decisions + stats.strategic_decisions + stats.local_decisions

\* C15: exactly one plan per cycle. Every deciding cycle returns a plan of
\* exactly one tier and increments exactly the counter of that tier by one,
\* and after every cycle decisions_made is the sum of the three counters.
C15_OnePlanPerCycle ==
  [][/\ en_stats'.decisions_made = TierCounterSum(en_stats')
     /\ (en_stats'.decisions_made = en_stats.decisions_made + 1) =>
          /\ en_last'.tier \in {"REFLEX", "STRATEGIC", "LOCAL"}
          /\ en_last'.action # "none"
          /\ en_stats'.reflex_decisions = en_stats.reflex_decisions
                + (IF en_last'.tier = "REFLEX" THEN 1 ELSE 0)
          /\ en_stats'.strategic_decisions = en_stats.strategic_decisions
                + (IF en_last'.tier = "STRATEGIC" THEN 1 ELSE 0)
          /\ en_stats'.local_decisions = en_stats.local_decisions
                + (IF en_last'.tier = "LOCAL" THEN 1 ELSE 0)]_vars

\* two completed cycles, decided by two different tiers
C15_Witness ==
  /\ en_stats.decisions_made = 2
  /\ en_stats.strategic_decisions = 1
  /\ en_stats.local_decisions = 1
  /\ en_last.tier = "LOCAL"

(***************************************************************************)
(* Classifier harness: Init draws a situation and a goal set, one step     *)
(* applies one of the classifiers to it.                                   *)
(***************************************************************************)
ClassifierFlags == {"event_active", "stuck"}
ClassifierGoals == {"manage_inventory", "explore"}

ClInit ==
  /\ cl_situation \in {Situation(o, h, f) : o \in ObjectLists, h \in 0..MaxHealth,
                                            f \in SUBSET ClassifierFlags}
  /\ cl_goals \in SUBSET ClassifierGoals
  /\ cl_variant = "none"
  /\ cl_result = "none"
  /\ RtIdle /\ CxIdle /\ DmIdle /\ GmIdle /\ EnIdle /\ AcIdle /\ MbIdle /\ LpIdle /\ JsIdle /\ BrIdle /\ DcIdle /\ GlIdle /\ WgIdle /\ CfIdle

CallClassifySituation ==
  /\ cl_variant = "none"
  /\ cl_variant' = "router"
  /\ cl_result' = classify_situation(cl_situation, cl_goals)
  /\ UNCHANGED <<cl_situation, cl_goals>>
  /\ UNCHANGED not_cl

CallAnalyzeSituation ==
  /\ cl_variant = "none"
  /\ cl_variant' = "rag_brain"
  /\ cl_result' = analyze_situation(cl_situation, cl_goals)
  /\ UNCHANGED <<cl_situation, cl_goals>>
  /\ UNCHANGED not_cl

CallCheckInstantResponse ==
  /\ cl_variant = "none"
  /\ cl_variant' = "reflex"
  /\ cl_result' = check_instant_response(cl_situation, cl_goals)
  /\ UNCHANGED <<cl_situation, cl_goals>>
  /\ UNCHANGED not_cl

ClNext ==
  \/ CallClassifySituation
  \/ CallAnalyzeSituation
  \/ CallCheckInstantResponse

SpecClassify == ClInit /\ [][ClNext]_vars

CombatCategories ==
  {"low_health_combat", "enemy_detected",
   "enemy_close_low_health", "enemy_healthy",
   "enemy_close_health_low", "enemy_detected_healthy"}

LootCategories == {"loot_container_safe", "loot_safe", "loot_safe_nearby"}

InventoryGoals == {"manage_inventory", "inventory_management"}

\* C2: threat precedence in SmartDecisionRouter._classify_situation. With a
\* hostile entity detected, health below 30 gives low_health_combat and health
\* of 30 or more gives enemy_detected, whatever the loot detections, the
\* event_active and stuck flags and the goals are.
C2_ThreatPrecedence ==
  (cl_variant = "router" /\ has_enemy(cl_situation.detected_objects)) =>
     cl_result = (IF cl_situation.health < 30 THEN "low_health_combat"
                                              ELSE "enemy_detected")

C2_Witness ==
  /\ cl_variant = "router"
  /\ has_enemy(cl_situation.detected_objects)
  /\ has_loot(cl_situation.detected_objects)
  /\ cl_situation.health = 29
  /\ cl_situation.event_active /\ cl_situation.stuck
  /\ cl_goals = ClassifierGoals
  /\ cl_result = "low_health_combat"

\* C3: safety first in every classifier variant. Whenever a hostile and a
\* lootable entity are both detected, whatever the health is, the classifier
\* that was applied returned a combat category.
C3_SafetyFirstAllVariants ==
  (cl_variant # "none" /\ has_enemy(cl_situation.detected_objects)
     /\ has_loot(cl_situation.detected_objects)) =>
        cl_result \in CombatCategories

\* C4: the loot category is returned only with a lootable entity, no hostile
\* entity and an inventory goal among the active goals.
C4_LootNeedsInventoryGoal ==
  (cl_variant # "none" /\ cl_result \in LootCategories) =>
     /\ has_loot(cl_situation.detected_objects)
     /\ ~has_enemy(cl_situation.detected_objects)
     /\ cl_goals \cap InventoryGoals # {}

\* C27: stuck precedence. For every situation with the stuck flag set, no
\* hostile entity and no lootable entity, _classify_situation returns the
\* stuck category, whatever event_active and the goal list are.
C27_StuckPrecedence ==
  (cl_variant = "router" /\ cl_situation.stuck
     /\ ~has_enemy(cl_situation.detected_objects)
     /\ ~has_loot(cl_situation.detected_objects)) =>
       cl_result = "stuck_on_geometry"

(***************************************************************************)
(* The actuator: ActionController.press (input_emulator.py) and the        *)
(* execute_action of the execution loops                                   *)
(***************************************************************************)
\* input_emulator.ACTION_TO_KEY
ACTION_TO_KEY ==
  [FORWARD |-> "KEY_W", BACKWARD |-> "KEY_S", STRAFE_LEFT |-> "KEY_A",
   STRAFE_RIGHT |-> "KEY_D", JUMP |-> "KEY_SPACE", SPRINT |-> "KEY_LEFTSHIFT",
   INTERACT |-> "KEY_E", RELOAD |-> "KEY_R", VATS |-> "KEY_Q",
   ATTACK |-> "BTN_LEFT", AIM |-> "BTN_RIGHT", M |-> "KEY_M", TAB |-> "KEY_TAB",
   ESC |-> "KEY_ESC", ENTER |-> "KEY_ENTER", C |-> "KEY_C", I |-> "KEY_I",
   F |-> "KEY_F", CTRL |-> "KEY_LEFTCTRL"]

\* str.upper() on the action names that occur
upper(action_name) ==
  CASE action_name = "forward" -> "FORWARD"
    [] action_name = "vats" -> "VATS"
    [] action_name = "wait" -> "WAIT"
    [] action_name = "dance" -> "DANCE"
    [] OTHER -> action_name

\* the action names a caller may hand over: known and unknown ones, in upper
\* and in lower case
ActionNames ==
  {"FORWARD", "forward", "VATS", "vats", "M", "TAB", "AIM", "SPRINT", "WAIT",
   "wait", "SMOOTH_LOOK", "DANCE", "dance", "EXPLORE"}

\* how the writes to the input device of one press call go
WriteOutcomes == {"ok", "press_fails", "release_fails"}

\* faulty variant: an unknown name is written as a key of its own
press_unchecked(events, action_name, write_outcome) ==
  LET name == upper(action_name)
      key_code == IF name \in DOMAIN ACTION_TO_KEY THEN ACTION_TO_KEY[name] ELSE name
  IN  IF write_outcome = "press_fails" THEN [events |-> events, returned |-> FALSE]
      ELSE IF write_outcome = "release_fails"
      THEN [events |-> Append(events, <<key_code, 1>>), returned |-> FALSE]
      ELSE [events |-> events \o << <<key_code, 1>>, <<key_code, 0>> >>,
            returned |-> TRUE]

\* ActionController.press: the events on the device after the call and the
\* value returned
press(events, action_name, write_outcome) ==
  LET name == upper(action_name)
  IN  IF name \notin DOMAIN ACTION_TO_KEY
      THEN [events |-> events, returned |-> FALSE]
      ELSE LET key_code == ACTION_TO_KEY[name]
           IN  IF write_outcome = "press_fails"
               THEN [events |-> events, returned |-> FALSE]
               ELSE IF write_outcome = "release_fails"
               THEN [events |-> Append(events, <<key_code, 1>>), returned |-> FALSE]
               ELSE [events |-> events \o << <<key_code, 1>>, <<key_code, 0>> >>,
                     returned |-> TRUE]

\* action_data.get('action', 'WAIT')
plan_action(action_data) ==
  IF "action" \in DOMAIN action_data THEN action_data.action ELSE "WAIT"

\* the names main_bot's execute_action hands to the controller, besides "M"
MainBotAccepted ==
  {"FORWARD", "BACKWARD", "STRAFE_LEFT", "STRAFE_RIGHT", "JUMP", "INTERACT",
   "VATS", "ATTACK", "AIM", "WAIT"}

\* IntelligentF76AI.execute_action (main_bot.py): the device events after the
\* call, the controller.press calls made, and whether the action was logged
\* as unknown
execute_action(events, action_data, o1, o2) ==
  LET action == upper(plan_action(action_data))
  IN  IF action = "M"
      THEN [events |-> press(press(events, "M", o1).events, "M", o2).events,
            controller_calls |-> <<"M", "M">>, rejected |-> FALSE]
      ELSE IF action \in MainBotAccepted
      THEN IF action = "WAIT"
           THEN [events |-> events, controller_calls |-> <<>>, rejected |-> FALSE]
           ELSE [events |-> press(events, action, o1).events,
                 controller_calls |-> <<action>>, rejected |-> FALSE]
      ELSE [events |-> events, controller_calls |-> <<>>, rejected |-> TRUE]

\* the plans handed to execute_action: with an action, or without one
ActionData ==
  {[action |-> a, duration |-> 10] : a \in ActionNames} \cup {[duration |-> 10]}

\* a direct call of ActionController.press
Press ==
  /\ ex_calls < MaxActuatorCalls
  /\ ex_calls' = ex_calls + 1
  /\ \E action_name \in ActionNames, o \in WriteOutcomes :
       LET r == press(device_events, action_name, o)
       IN  /\ device_events' = r.events
           /\ ex_last' = [op |-> "press", action |-> action_name,
                          returned |-> r.returned, controller_calls |-> <<>>,
                          rejected |-> FALSE]
  /\ UNCHANGED execution_count
  /\ UNCHANGED not_ac

\* IntelligentF76AI.execute_action (main_bot.py)
ExecuteAction ==
  /\ ex_calls < MaxActuatorCalls
  /\ ex_calls' = ex_calls + 1
  /\ \E action_data \in ActionData, o1 \in WriteOutcomes, o2 \in WriteOutcomes :
       LET r == execute_action(device_events, action_data, o1, o2)
       IN  /\ device_events' = r.events
           /\ ex_last' = [op |-> "execute_action",
                          action |-> IF "action" \in DOMAIN action_data
                                     THEN action_data.action ELSE "None",
                          returned |-> "None",
                          controller_calls |-> r.controller_calls,
                          rejected |-> r.rejected]
  /\ execution_count' = execution_count + 1
  /\ UNCHANGED not_ac

\* what LocalBrain._generate_smart_fallback_plan finds in the prompt
PromptAnalyses ==
  [has_threats : BOOLEAN, needs_orientation : BOOLEAN, has_objects : BOOLEAN,
   is_clear : BOOLEAN]

\* LocalBrain._generate_smart_fallback_plan and the five plans it returns
generate_smart_fallback_plan(prompt) ==
  IF prompt.has_threats
  THEN [action |-> "VATS", duration |-> 1, reason |-> "engage_detected_threat",
        source |-> "combat_fallback"]
  ELSE IF prompt.needs_orientation
  THEN [action |-> "TAB", duration |-> 1, reason |-> "check_map_for_orientation",
        source |-> "orientation_fallback"]
  ELSE IF prompt.has_objects
  THEN [action |-> "INTERACT", duration |-> 10, reason |-> "investigate_objects",
        source |-> "investigation_fallback"]
  ELSE IF prompt.is_clear
  THEN [action |-> "FORWARD", duration |-> 25, reason |-> "continue_exploration",
        source |-> "exploration_fallback"]
  ELSE [action |-> "SMOOTH_LOOK", dx |-> 45, dy |-> 0, duration |-> 5,
        reason |-> "assess_situation", source |-> "default_fallback"]

\* abs() and max() of smooth_look
AbsOf(x) == IF x < 0 THEN -x ELSE x
MaxOf2(a, b) == IF a >= b THEN a ELSE b

\* ActionController.smooth_look: the relative moves written step by step
smooth_look(events, dx, dy) ==
  LET steps == MaxOf2(10, (AbsOf(dx) + AbsOf(dy)) \div 5)
  IN  events \o [i \in 1..(2 * steps) |->
                   IF i % 2 = 1 THEN <<"REL_X", dx \div steps>>
                   ELSE <<"REL_Y", dy \div steps>>]

\* the names IntegratedFallout76System.execute_decision hands to press
ExecuteDecisionPressed ==
  {"FORWARD", "BACKWARD", "STRAFE_LEFT", "STRAFE_RIGHT", "INTERACT", "VATS",
   "ATTACK"}

\* decision.get(key, default)
decision_get(decision, key, default) ==
  IF key \in DOMAIN decision THEN decision[key] ELSE default

\* IntegratedFallout76System.execute_decision (main_fallout76_ai.py)
execute_decision(events, decision, o1) ==
  LET action == decision_get(decision, "action", "WAIT")
  IN  IF action \in ExecuteDecisionPressed
      THEN [events |-> press(events, action, o1).events,
            controller_calls |-> <<action>>, rejected |-> FALSE]
      ELSE IF action = "SMOOTH_LOOK"
      THEN [events |-> smooth_look(events, decision_get(decision, "dx", 0),
                                   decision_get(decision, "dy", 0)),
            controller_calls |-> <<"smooth_look">>, rejected |-> FALSE]
      ELSE IF action = "WAIT"
      THEN [events |-> events, controller_calls |-> <<>>, rejected |-> FALSE]
      ELSE [events |-> events, controller_calls |-> <<>>, rejected |-> TRUE]

\* the goals IntelligentDecisionMaker._fallback_decision is keyed by
FallbackGoals == {"do_public_events", "fishing", "manage_inventory", "explore_and_map"}

\* a cycle of main_bot's main_loop in which LocalBrain.get_plan returned its
\* smart fallback plan: make_intelligent_decision passes it on and
\* execute_action consumes it
ExecuteFallbackPlan ==
  /\ ex_calls < MaxActuatorCalls
  /\ ex_calls' = ex_calls + 1
  /\ \E prompt \in PromptAnalyses, o1 \in WriteOutcomes, o2 \in WriteOutcomes :
       LET brain_response == generate_smart_fallback_plan(prompt)
           r == execute_action(device_events, brain_response, o1, o2)
       IN  /\ device_events' = r.events
           /\ ex_last' = [op |-> "execute_fallback_plan",
                          action |-> brain_response.action,
                          returned |-> "None",
                          controller_calls |-> r.controller_calls,
                          rejected |-> r.rejected]
  /\ execution_count' = execution_count + 1
  /\ UNCHANGED not_ac

\* a cycle of IntegratedFallout76System.main_game_loop in which make_decision
\* returned the goal-keyed fallback: execute_decision consumes it
ExecuteFallbackDecision ==
  /\ ex_calls < MaxActuatorCalls
  /\ ex_calls' = ex_calls + 1
  /\ \E goal_id \in FallbackGoals, o1 \in WriteOutcomes :
       LET decision == fallback_decision(goal_id)
           r == execute_decision(device_events, decision, o1)
       IN  /\ device_events' = r.events
           /\ ex_last' = [op |-> "execute_fallback_decision",
                          action |-> decision.action,
                          returned |-> "None",
                          controller_calls |-> r.controller_calls,
                          rejected |-> r.rejected]
  /\ UNCHANGED execution_count
  /\ UNCHANGED not_ac

\* execute_decision on a plan of the tiers above the fallback
ExecuteDecision ==
  /\ ex_calls < MaxActuatorCalls
  /\ ex_calls' = ex_calls + 1
  /\ \E decision \in {[action |-> "FORWARD", duration |-> 20],
                      [action |-> "SMOOTH_LOOK", dx |-> 45, dy |-> 0, duration |-> 5],
                      [duration |-> 10]},
        o1 \in WriteOutcomes :
       LET r == execute_decision(device_events, decision, o1)
       IN  /\ device_events' = r.events
           /\ ex_last' = [op |-> "execute_decision",
                          action |-> decision_get(decision, "action", "None"),
                          returned |-> "None",
                          controller_calls |-> r.controller_calls,
                          rejected |-> r.rejected]
  /\ UNCHANGED execution_count
  /\ UNCHANGED not_ac

AcInit == AcIdle /\ ClIdle /\ RtIdle /\ CxIdle /\ DmIdle /\ GmIdle /\ EnIdle /\ MbIdle /\ LpIdle /\ JsIdle /\ BrIdle /\ DcIdle /\ GlIdle /\ WgIdle /\ CfIdle

AcNext ==
  \/ Press
  \/ ExecuteAction
  \/ ExecuteFallbackPlan
  \/ ExecuteFallbackDecision
  \/ ExecuteDecision

SpecActuator == AcInit /\ [][AcNext]_vars

C18_FallbackPlansAreDispatched ==
  ex_last.op \in {"execute_fallback_plan", "execute_fallback_decision"} =>
    ~ex_last.rejected

(***************************************************************************)
(* IntelligentF76AI (main_bot.py): start / stop / pause / resume, called   *)
(* one at a time by the command loop of main(), and the main_loop threads  *)
(* A main_loop thread is at                                                *)
(*   "unborn"   not started yet                                            *)
(*   "top"      the test of `while self.running`                           *)
(*   "waiting"  inside wait_for_game                                       *)
(*   "body"     the try block: get_current_context,                        *)
(*              make_intelligent_decision, execute_action                  *)
(*   "sleeping" time.sleep after the body                                  *)
(*   "done"     the loop was left                                          *)
(***************************************************************************)
\* the game window appears or disappears
GameChanges ==
  /\ game_active' = ~game_active
  /\ UNCHANGED <<running, paused, cmd_pc, loop_pc, cycle_count, seen_active, mb_last>>
  /\ UNCHANGED status
  /\ UNCHANGED not_mb

\* faulty variant: start does not test self.running
start_allowed_always(is_running) == TRUE

\* IntelligentF76AI.start: `if self.running: return`
start_allowed(is_running) == ~is_running

\* IntelligentF76AI.start up to game_thread.join(): the flags are set, then
\* the command loop is blocked in wait_for_game
StartCommand ==
  /\ cmd_pc = "idle"
  /\ \E t \in LoopThreads : loop_pc[t] = "unborn"
  /\ IF start_allowed(running)
     THEN running' = TRUE /\ paused' = FALSE /\ cmd_pc' = "start_waits_for_game"
     ELSE UNCHANGED <<running, paused, cmd_pc>>
  /\ UNCHANGED <<game_active, loop_pc, cycle_count, seen_active, mb_last>>
  /\ UNCHANGED status
  /\ UNCHANGED not_mb

\* IntelligentF76AI.start after game_thread.join(): the main_loop thread is
\* started and sets the shared status to Running
StartSpawnsLoop ==
  /\ cmd_pc = "start_waits_for_game"
  /\ game_active
  /\ cmd_pc' = "idle"
  /\ LET t == CHOOSE u \in LoopThreads :
                /\ loop_pc[u] = "unborn"
                /\ \A v \in LoopThreads : loop_pc[v] = "unborn" => u <= v
     IN  loop_pc' = [loop_pc EXCEPT ![t] = "top"]
  /\ UNCHANGED <<running, paused, game_active, cycle_count, seen_active, mb_last>>
  /\ status' = "Running"
  /\ UNCHANGED not_mb

\* IntelligentF76AI.stop
StopCommand ==
  /\ cmd_pc = "idle"
  /\ running' = FALSE
  /\ paused' = FALSE
  /\ UNCHANGED <<game_active, cmd_pc, loop_pc, cycle_count, seen_active, mb_last>>
  /\ UNCHANGED status
  /\ UNCHANGED not_mb

\* IntelligentF76AI.pause
PauseCommand ==
  /\ cmd_pc = "idle"
  /\ paused' = TRUE
  /\ UNCHANGED <<running, game_active, cmd_pc, loop_pc, cycle_count, seen_active, mb_last>>
  /\ status' = "Paused"
  /\ UNCHANGED not_mb

\* IntelligentF76AI.resume
ResumeCommand ==
  /\ cmd_pc = "idle"
  /\ paused' = FALSE
  /\ UNCHANGED <<running, game_active, cmd_pc, loop_pc, cycle_count, seen_active, mb_last>>
  /\ status' = "Running"
  /\ UNCHANGED not_mb

\* main_loop from `while self.running` to the try block: the loop is left when
\* running is false; a paused loop sleeps and tests again; otherwise the game
\* is looked for, and with the game active cycle_count is counted and the
\* body entered
LoopTop(t) ==
  /\ loop_pc[t] = "top"
  /\ IF ~running
     THEN /\ loop_pc' = [loop_pc EXCEPT ![t] = "done"]
          /\ status' = "Idle"
          /\ UNCHANGED <<cycle_count, seen_active>>
     ELSE IF paused
     THEN UNCHANGED <<loop_pc, cycle_count, seen_active, status>>
     ELSE /\ cycle_count[t] < MaxLoopCycles
          /\ seen_active' = [seen_active EXCEPT ![t] = game_active]
          /\ UNCHANGED status
          /\ IF game_active
             THEN /\ cycle_count' = [cycle_count EXCEPT ![t] = @ + 1]
                  /\ loop_pc' = [loop_pc EXCEPT ![t] = "body"]
             ELSE /\ loop_pc' = [loop_pc EXCEPT ![t] = "waiting"]
                  /\ UNCHANGED cycle_count
  /\ UNCHANGED <<running, paused, game_active, cmd_pc, mb_last>>
  /\ UNCHANGED not_mb

\* wait_for_game called by main_loop: it polls is_game_active every 3 s and
\* returns when the game is active; then the cycle goes on into the body
LoopWaitsForGame(t) ==
  /\ loop_pc[t] = "waiting"
  /\ game_active
  /\ cycle_count[t] < MaxLoopCycles
  /\ seen_active' = [seen_active EXCEPT ![t] = TRUE]
  /\ cycle_count' = [cycle_count EXCEPT ![t] = @ + 1]
  /\ loop_pc' = [loop_pc EXCEPT ![t] = "body"]
  /\ UNCHANGED <<running, paused, game_active, cmd_pc, mb_last>>
  /\ UNCHANGED status
  /\ UNCHANGED not_mb

\* the try block of main_loop ends: the plan was executed, or an exception
\* was caught; the thread sleeps
LoopBodyEnds(t) ==
  /\ loop_pc[t] = "body"
  /\ \E outcome \in {"executed", "error"} :
       mb_last' = [thread |-> t, outcome |-> outcome]
  /\ loop_pc' = [loop_pc EXCEPT ![t] = "sleeping"]
  /\ UNCHANGED <<running, paused, game_active, cmd_pc, cycle_count, seen_active>>
  /\ UNCHANGED status
  /\ UNCHANGED not_mb

\* time.sleep is over: back to the test of the while loop
LoopWakes(t) ==
  /\ loop_pc[t] = "sleeping"
  /\ loop_pc' = [loop_pc EXCEPT ![t] = "top"]
  /\ UNCHANGED <<running, paused, game_active, cmd_pc, cycle_count, seen_active, mb_last>>
  /\ UNCHANGED status
  /\ UNCHANGED not_mb

MbInit == MbIdle /\ ClIdle /\ RtIdle /\ CxIdle /\ DmIdle /\ GmIdle /\ EnIdle /\ AcIdle /\ LpIdle /\ JsIdle /\ BrIdle /\ DcIdle /\ GlIdle /\ WgIdle /\ CfIdle

MbNext ==
  \/ GameChanges
  \/ StartCommand
  \/ StartSpawnsLoop
  \/ StopCommand
  \/ PauseCommand
  \/ ResumeCommand
  \/ \E t \in LoopThreads : LoopTop(t)
  \/ \E t \in LoopThreads : LoopWaitsForGame(t)
  \/ \E t \in LoopThreads : LoopBodyEnds(t)
  \/ \E t \in LoopThreads : LoopWakes(t)

SpecMainBot == MbInit /\ [][MbNext]_vars

\* every main_loop thread that can take a step takes it eventually, and a
\* thread polling in wait_for_game does not miss a game window that keeps
\* coming back; the commands and the game window are not obliged to do
\* anything
MbFairness ==
  \A t \in LoopThreads :
    /\ WF_vars(LoopTop(t)) /\ SF_vars(LoopWaitsForGame(t))
    /\ WF_vars(LoopBodyEnds(t)) /\ WF_vars(LoopWakes(t))

SpecMainBotFair == MbInit /\ [][MbNext]_vars /\ MbFairness

\* C13: no two decision cycles run concurrently. Under every interleaving of
\* the start, stop, pause and resume commands with the loop threads, at most
\* one main_loop thread is inside the observe-decide-act body.
C13_NoConcurrentCycles ==
  Cardinality({t \in LoopThreads : loop_pc[t] = "body"}) <= 1

\* C25: stop is always honoured. Whenever stop has been processed while a
\* main_loop thread is alive, that thread eventually leaves the loop and the
\* shared status becomes Idle, also when the loop is paused and when the game
\* is not active at that moment (unless start is processed again before the
\* thread has looked at the flag).
C25_StopIsHonoured ==
  \A t \in LoopThreads :
    (loop_pc[t] \notin {"unborn", "done"} /\ ~running)
      ~> ((loop_pc[t] = "done" /\ status = "Idle") \/ running)

(***************************************************************************)
(* One cycle of the asyncio execution loops:                               *)
(*   IntelligentFallout76AI.start_intelligent_system (main_bot_enhanced),  *)
(*   FixedFallout76AI.start_game_loop (main_fallout76_ai_fixed),           *)
(*   IntegratedFallout76System.main_game_loop (main_fallout76_ai).         *)
(* (The threaded main_loop of main_bot.py is in SpecMainBot.)              *)
(***************************************************************************)
\* capture_game_state of main_bot_enhanced and main_fallout76_ai_fixed: only
\* {'game_active': False} when is_game_active() is false or vision raises
capture_game_state(is_active, vision_raises, objs) ==
  IF ~is_active \/ vision_raises
  THEN [game_active |-> FALSE]
  ELSE [game_active |-> TRUE, detected_objects |-> objs, health |-> CapturedHealth]

\* IntegratedFallout76System.capture_game_state: the full state with the
\* adapter's answer in 'game_active'; the minimal state when vision raises
integrated_capture_game_state(is_active, vision_raises, objs) ==
  IF vision_raises
  THEN [game_active |-> FALSE, health |-> CapturedHealth]
  ELSE [game_active |-> is_active, detected_objects |-> objs,
        health |-> CapturedHealth]

\* one cycle of start_intelligent_system and of start_game_loop
guarded_loop_cycle(goals_active, game_state) ==
  IF ~goals_active THEN "sleep_no_goals"
  ELSE IF ~game_state.game_active THEN "sleep_game_not_active"
  ELSE "decided_and_executed"

\* one cycle of main_game_loop: game_state['game_active'] is not read
integrated_loop_cycle(goals_active, game_state) ==
  IF ~goals_active THEN "sleep_no_goals" ELSE "decided_and_executed"

LoopObjectLists == {<<>>, <<"tree">>, <<"person">>, <<"container">>}

\* a cycle of IntelligentFallout76AI.start_intelligent_system
EnhancedLoopCycle ==
  /\ lp_cycles < MaxAsyncCycles
  /\ lp_cycles' = lp_cycles + 1
  /\ lp_loop' = "start_intelligent_system"
  /\ \E goals_active \in BOOLEAN, is_active \in BOOLEAN, vision_raises \in BOOLEAN,
        objs \in LoopObjectLists :
       LET game_state == capture_game_state(is_active, vision_raises, objs)
       IN  /\ lp_goals_active' = goals_active
           /\ lp_game_state' = game_state
           /\ lp_outcome' = guarded_loop_cycle(goals_active, game_state)
  /\ UNCHANGED not_lp

\* a cycle of FixedFallout76AI.start_game_loop
FixedLoopCycle ==
  /\ lp_cycles < MaxAsyncCycles
  /\ lp_cycles' = lp_cycles + 1
  /\ lp_loop' = "start_game_loop"
  /\ \E goals_active \in BOOLEAN, is_active \in BOOLEAN, vision_raises \in BOOLEAN,
        objs \in LoopObjectLists :
       LET game_state == capture_game_state(is_active, vision_raises, objs)
       IN  /\ lp_goals_active' = goals_active
           /\ lp_game_state' = game_state
           /\ lp_outcome' = guarded_loop_cycle(goals_active, game_state)
  /\ UNCHANGED not_lp

\* a cycle of IntegratedFallout76System.main_game_loop
IntegratedLoopCycle ==
  /\ lp_cycles < MaxAsyncCycles
  /\ lp_cycles' = lp_cycles + 1
  /\ lp_loop' = "main_game_loop"
  /\ \E goals_active \in BOOLEAN, is_active \in BOOLEAN, vision_raises \in BOOLEAN,
        objs \in LoopObjectLists :
       LET game_state == integrated_capture_game_state(is_active, vision_raises, objs)
       IN  /\ lp_goals_active' = goals_active
           /\ lp_game_state' = game_state
           /\ lp_outcome' = integrated_loop_cycle(goals_active, game_state)
  /\ UNCHANGED not_lp

LpInit ==
  /\ LpIdle /\ ClIdle /\ RtIdle /\ CxIdle /\ DmIdle /\ GmIdle /\ EnIdle /\ AcIdle /\ JsIdle /\ BrIdle /\ DcIdle /\ GlIdle /\ WgIdle /\ CfIdle
  /\ MbIdle

LpNext == EnhancedLoopCycle \/ FixedLoopCycle \/ IntegratedLoopCycle

SpecLoops == LpInit /\ [][LpNext]_vars

\* C14: when the perception adapter reports the game as not active, the
\* execution loop produces and executes no plan in that cycle, in every
\* execution loop.
C14_NoPlanWhenGameNotActive ==
  (lp_cycles > 0 /\ ~lp_game_state.game_active) =>
     lp_outcome # "decided_and_executed"

(***************************************************************************)
(* Plan extraction from a response text: BigBrain.get_plan (llm_module),   *)
(* LightweightBrain.get_plan (local_llm_lightweight) and                   *)
(* LocalBrain._extract_plan_from_response (local_llm_module).              *)
(* A text is a sequence of tokens: an opening brace, a closing brace, a    *)
(* stretch of commentary without braces, a member "key": value with a      *)
(* string or number value, or a key whose value is the object that         *)
(* follows. All values are kept as strings.                                *)
(***************************************************************************)
Open == [t |-> "{"]
Close == [t |-> "}"]
Commentary == [t |-> "txt"]
Member(k, v) == [t |-> "member", key |-> k, value |-> v]
ObjectKey(k) == [t |-> "key", key |-> k]

\* the tokens of the response texts explored
ResponseTokens ==
  {Open, Close, Commentary, Member("action", "ATTACK"), Member("duration", "2.5"),
   ObjectKey("params")}

\* the response texts explored
ResponseTexts == UNION {[1..n -> ResponseTokens] : n \in 0..MaxTextLen}

\* the empty dict
EmptyDict == <<>>

\* the members of an object from position i on, up to its closing brace:
\* whether they parse, the dict they give and the position after the brace
RECURSIVE parse_members(_, _, _)
parse_members(toks, i, acc) ==
  IF i > Len(toks) THEN [ok |-> FALSE, value |-> acc, next |-> i]
  ELSE IF toks[i].t = "}" THEN [ok |-> TRUE, value |-> acc, next |-> i + 1]
  ELSE IF toks[i].t = "member"
  THEN parse_members(toks, i + 1, dict_set(acc, toks[i].key, toks[i].value))
  ELSE IF toks[i].t = "key" /\ i + 1 <= Len(toks) /\ toks[i + 1].t = "{"
  THEN LET inner == parse_members(toks, i + 2, EmptyDict)
       IN  IF inner.ok
           THEN parse_members(toks, inner.next,
                              dict_set(acc, toks[i].key, inner.value))
           ELSE [ok |-> FALSE, value |-> acc, next |-> i]
  ELSE [ok |-> FALSE, value |-> acc, next |-> i]

\* json.loads on a matched string: the dict, or NoneVal for JSONDecodeError
json_loads(toks) ==
  IF Len(toks) >= 2 /\ toks[1].t = "{"
  THEN LET r == parse_members(toks, 2, EmptyDict)
       IN  IF r.ok /\ r.next = Len(toks) + 1 THEN r.value ELSE NoneVal
  ELSE NoneVal

\* positions of the braces of a text
OpenPositions(text) == {i \in 1..Len(text) : text[i].t = "{"}
ClosePositions(text) == {i \in 1..Len(text) : text[i].t = "}"}
MinOf(S) == CHOOSE x \in S : \A y \in S : x <= y
MaxOf(S) == CHOOSE x \in S : \A y \in S : y <= x

\* re.search(r'\{.*\}', text, re.DOTALL): from the first opening brace to the
\* last closing brace after it; NoneVal without a match
search_greedy(text) ==
  IF OpenPositions(text) = {} THEN NoneVal
  ELSE LET first == MinOf(OpenPositions(text))
           closes == {i \in ClosePositions(text) : i > first}
       IN  IF closes = {} THEN NoneVal ELSE SubSeq(text, first, MaxOf(closes))

\* re.search(r'\{[^}]*\}', text, re.DOTALL): from the first opening brace to
\* the first closing brace after it; NoneVal without a match
search_to_first_close(text) ==
  IF OpenPositions(text) = {} THEN NoneVal
  ELSE LET first == MinOf(OpenPositions(text))
           closes == {i \in ClosePositions(text) : i > first}
       IN  IF closes = {} THEN NoneVal ELSE SubSeq(text, first, MinOf(closes))

\* BigBrain.get_plan from result_text on: the parsed object, or None
big_brain_get_plan(result_text) ==
  LET json_match == search_greedy(result_text)
  IN  IF json_match = NoneVal THEN NoneVal ELSE json_loads(json_match)

\* LightweightBrain.quick_decisions['exploring'], unchanged by get_plan
QuickExploring ==
  [action |-> "FORWARD", duration |-> "2.0", reason |-> "continue_exploration"]

\* LightweightBrain.get_quick_decision('exploring')
get_quick_decision_exploring == dict_set(QuickExploring, "source", "template")

\* LightweightBrain.get_plan from result_text on
lightweight_get_plan(result_text) ==
  LET json_match == search_greedy(result_text)
  IN  IF json_match # NoneVal /\ json_loads(json_match) # NoneVal
      THEN dict_set(json_loads(json_match), "source", "lightweight_ai")
      ELSE get_quick_decision_exploring

\* the keywords _extract_action_from_text finds in the values of a text
text_has(text, values) ==
  \E i \in 1..Len(text) : text[i].t = "member" /\ text[i].value \in values

\* LocalBrain._extract_action_from_text
extract_action_from_text(text) ==
  IF text_has(text, {"FORWARD", "move forward"})
  THEN [action |-> "FORWARD", duration |-> "2.0", reason |-> "move forward"]
  ELSE IF text_has(text, {"ATTACK", "VATS"})
  THEN [action |-> "VATS", duration |-> "0.1", reason |-> "engage enemy"]
  ELSE [action |-> "FORWARD", duration |-> "1.5", reason |-> "continue exploration"]

\* faulty variant: the defaults overwrite what the response gave
with_defaults_overwriting(plan) ==
  dict_set(dict_set(plan, "duration", "1.0"), "reason", "AI decision")

\* _extract_plan_from_response: the defaults for a missing duration and reason
with_defaults(plan) ==
  LET p == IF "duration" \in DOMAIN plan THEN plan
           ELSE dict_set(plan, "duration", "1.0")
  IN  IF "reason" \in DOMAIN p THEN p ELSE dict_set(p, "reason", "AI decision")

\* LocalBrain._extract_plan_from_response
extract_plan_from_response(response_text) ==
  LET json_match == search_to_first_close(response_text)
      plan == IF json_match = NoneVal THEN NoneVal ELSE json_loads(json_match)
  IN  IF plan # NoneVal /\ "action" \in DOMAIN plan
      THEN with_defaults(plan)
      ELSE extract_action_from_text(response_text)

\* json.dumps of a plan: its members in a fixed key order
DumpKeys == <<"action", "duration", "reason", "source", "params">>

RECURSIVE dump_members(_, _)
dump_members(plan, i) ==
  IF i > Len(DumpKeys) THEN <<>>
  ELSE IF DumpKeys[i] \notin DOMAIN plan THEN dump_members(plan, i + 1)
  ELSE IF DumpKeys[i] = "params"
  THEN <<ObjectKey("params"), Open>> \o dump_members(plan.params, 1) \o <<Close>>
         \o dump_members(plan, i + 1)
  ELSE <<Member(DumpKeys[i], plan[DumpKeys[i]])>> \o dump_members(plan, i + 1)

json_dumps(plan) == <<Open>> \o dump_members(plan, 1) \o <<Close>>

\* BigBrain.get_plan on the response text
BigBrainGetPlan ==
  /\ js_client = "none"
  /\ js_client' = "BigBrain"
  /\ js_plan' = big_brain_get_plan(js_text)
  /\ UNCHANGED <<js_text, js_first>>
  /\ UNCHANGED not_js

\* LightweightBrain.get_plan on the response text
LightweightGetPlan ==
  /\ js_client = "none"
  /\ js_client' = "LightweightBrain"
  /\ js_plan' = lightweight_get_plan(js_text)
  /\ UNCHANGED <<js_text, js_first>>
  /\ UNCHANGED not_js

\* LocalBrain._extract_plan_from_response on the response text
LocalBrainExtractPlan ==
  /\ js_client = "none"
  /\ js_client' = "LocalBrain"
  /\ js_plan' = extract_plan_from_response(js_text)
  /\ UNCHANGED <<js_text, js_first>>
  /\ UNCHANGED not_js

\* the plan LocalBrain returned is serialised and extracted once more
LocalBrainExtractAgain ==
  /\ js_client = "LocalBrain"
  /\ js_client' = "LocalBrain again"
  /\ js_first' = js_plan
  /\ js_text' = json_dumps(js_plan)
  /\ js_plan' = extract_plan_from_response(json_dumps(js_plan))
  /\ UNCHANGED not_js

JsInit ==
  /\ js_text \in ResponseTexts
  /\ js_client = "none" /\ js_plan = NoneVal /\ js_first = NoneVal
  /\ ClIdle /\ RtIdle /\ CxIdle /\ DmIdle /\ GmIdle /\ EnIdle /\ AcIdle /\ MbIdle /\ BrIdle /\ DcIdle /\ GlIdle /\ WgIdle /\ CfIdle
  /\ LpIdle

JsNext ==
  \/ BigBrainGetPlan
  \/ LightweightGetPlan
  \/ LocalBrainExtractPlan
  \/ LocalBrainExtractAgain

SpecExtract == JsInit /\ [][JsNext]_vars

\* the substring from the first opening brace to the last closing brace
FirstBraceToLastBrace(text) ==
  SubSeq(text, MinOf(OpenPositions(text)), MaxOf(ClosePositions(text)))

\* a text that is commentary, one valid JSON object, commentary
CommentedObject(text) ==
  /\ OpenPositions(text) # {} /\ ClosePositions(text) # {}
  /\ \A i \in 1..Len(text) :
       (i < MinOf(OpenPositions(text)) \/ i > MaxOf(ClosePositions(text)))
         => text[i].t = "txt"
  /\ json_loads(FirstBraceToLastBrace(text)) # NoneVal

\* C16: the JSON extraction contract. For a text that is a valid JSON object
\* with commentary before and after it, nested braces included, every client
\* takes the plan from the substring from the first opening to the last
\* closing brace: the object is parsed in full.
C16_FirstBraceToLastBrace ==
  (js_client \in {"BigBrain", "LightweightBrain", "LocalBrain"}
     /\ CommentedObject(js_text)) =>
    LET object == json_loads(FirstBraceToLastBrace(js_text))
    IN  /\ js_client = "BigBrain" => js_plan = object
        /\ js_client = "LightweightBrain" =>
             js_plan = dict_set(object, "source", "lightweight_ai")
        /\ (js_client = "LocalBrain" /\ "action" \in DOMAIN object) =>
             \A k \in DOMAIN object : k \in DOMAIN js_plan /\ js_plan[k] = object[k]


\* the object LocalBrain's search and json.loads give for a text, or NoneVal
LocalBrainParsed(text) ==
  IF search_to_first_close(text) = NoneVal THEN NoneVal
  ELSE json_loads(search_to_first_close(text))

\* C17: the defaulting step of LocalBrain's plan extraction is field-preserving
\* and idempotent. For a parsed object that contains 'action', the action,
\* duration and reason of the response are returned unchanged, a missing
\* duration becomes 1.0 and a missing reason becomes 'AI decision'; the plan
\* serialised and extracted again is the same plan.
C17_DefaultingPreservesAndIsIdempotent ==
  /\ (js_client = "LocalBrain" /\ LocalBrainParsed(js_text) # NoneVal
        /\ "action" \in DOMAIN LocalBrainParsed(js_text)) =>
       LET object == LocalBrainParsed(js_text)
       IN  /\ \A k \in DOMAIN object : k \in DOMAIN js_plan /\ js_plan[k] = object[k]
           /\ DOMAIN js_plan = DOMAIN object \cup {"duration", "reason"}
           /\ "duration" \notin DOMAIN object => js_plan.duration = "1.0"
           /\ "reason" \notin DOMAIN object => js_plan.reason = "AI decision"
  /\ js_client = "LocalBrain again" => js_plan = js_first

\* C17 witness: a response with action and duration but no reason was
\* extracted, serialised and extracted again
C17_Witness ==
  /\ js_client = "LocalBrain again"
  /\ js_first = [action |-> "ATTACK", duration |-> "2.5", reason |-> "AI decision"]
  /\ js_plan = js_first


(***************************************************************************)
(* The model clients and their failure counters: LocalBrain.get_plan       *)
(* (local_llm_module), LocalBrainWithRAG._call_koboldcpp                   *)
(* (local_llm_with_rag) and LightweightBrain.get_plan                      *)
(* (local_llm_lightweight), with reset_failure_counter.                    *)
(***************************************************************************)
BrainClients == {"LocalBrain", "LocalBrainWithRAG", "LightweightBrain"}

\* self.max_failures_before_fallback, set in each __init__
max_failures_before_fallback(client) ==
  IF client = "LightweightBrain" THEN 1 ELSE 2

\* the response texts of a backend that answers: a JSON object with an
\* action, a JSON object without one, commentary with no object, braces that
\* json.loads rejects
PlanText == <<Commentary, Open, Member("action", "ATTACK"), Close>>
NoActionText == <<Open, Member("duration", "2.5"), Close>>
NoJsonText == <<Commentary>>
BadJsonText == <<Open, ObjectKey("params"), Close>>

\* What a backend request can end in:
\*   plan_text, no_action_text, no_json_text, bad_json_text   status 200
\*       with that response text
\*   no_results   status 200, the body lacks the text field
\*   http_error   raise_for_status raises
\*   timeout      no answer within the timeout
\*   connerr      the connection fails
BackendResponses ==
  {"plan_text", "no_action_text", "no_json_text", "bad_json_text", "no_results",
   "http_error", "timeout", "connerr"}

\* the outcomes that are requests.exceptions.RequestException
TransportFailures == {"http_error", "timeout", "connerr"}

\* the response text of an answer
response_text(response) ==
  CASE response = "plan_text" -> PlanText
    [] response = "no_action_text" -> NoActionText
    [] response = "no_json_text" -> NoJsonText
    [] response = "bad_json_text" -> BadJsonText
    [] OTHER -> <<>>

\* the prompts of the harness, by what _generate_smart_fallback_plan finds
BrainPrompts ==
  {[has_threats |-> TRUE, needs_orientation |-> FALSE, has_objects |-> FALSE,
    is_clear |-> FALSE],
   [has_threats |-> FALSE, needs_orientation |-> TRUE, has_objects |-> FALSE,
    is_clear |-> FALSE],
   [has_threats |-> FALSE, needs_orientation |-> FALSE, has_objects |-> FALSE,
    is_clear |-> FALSE]}

\* LocalBrainWithRAG._generate_smart_fallback_plan and its five plans
rag_generate_smart_fallback_plan(prompt) ==
  IF prompt.has_threats
  THEN [action |-> "VATS", duration |-> 1, reason |-> "engage_detected_threat",
        source |-> "combat_fallback"]
  ELSE IF prompt.needs_orientation
  THEN [action |-> "TAB", duration |-> 1, reason |-> "check_map_for_orientation",
        source |-> "orientation_fallback"]
  ELSE IF prompt.has_objects
  THEN [action |-> "INTERACT", duration |-> 10, reason |-> "investigate_objects",
        source |-> "investigation_fallback"]
  ELSE IF prompt.is_clear
  THEN [action |-> "FORWARD", duration |-> 20, reason |-> "continue_exploration",
        source |-> "exploration_fallback"]
  ELSE [action |-> "WAIT", duration |-> 10, reason |-> "assess_situation",
        source |-> "default_fallback"]

\* faulty variant: a failure is counted even at the limit
local_get_plan_always_counting(failures, prompt, response) ==
  IF response \in TransportFailures \cup {"no_results"}
  THEN [plan |-> generate_smart_fallback_plan(prompt), failures |-> failures + 1,
        request_sent |-> TRUE, origin |-> "fallback_table", raised |-> TRUE]
  ELSE [plan |-> extract_plan_from_response(response_text(response)),
        failures |-> 0, request_sent |-> TRUE,
        origin |-> IF LocalBrainParsed(response_text(response)) # NoneVal
                      /\ "action" \in DOMAIN LocalBrainParsed(response_text(response))
                   THEN "model" ELSE "response_text_keywords",
        raised |-> FALSE]

\* LocalBrain.get_plan: the plan, the counter after the call, whether a
\* request was sent, where the plan came from, whether the try block raised
local_get_plan(failures, prompt, response) ==
  IF failures >= max_failures_before_fallback("LocalBrain")
  THEN [plan |-> generate_smart_fallback_plan(prompt), failures |-> failures,
        request_sent |-> FALSE, origin |-> "fallback_table", raised |-> FALSE]
  ELSE IF response \in TransportFailures \cup {"no_results"}
  THEN [plan |-> generate_smart_fallback_plan(prompt), failures |-> failures + 1,
        request_sent |-> TRUE, origin |-> "fallback_table", raised |-> TRUE]
  ELSE [plan |-> extract_plan_from_response(response_text(response)),
        failures |-> 0, request_sent |-> TRUE,
        origin |-> IF LocalBrainParsed(response_text(response)) # NoneVal
                      /\ "action" \in DOMAIN LocalBrainParsed(response_text(response))
                   THEN "model" ELSE "response_text_keywords",
        raised |-> FALSE]

\* faulty variant: a success leaves the counter as it is
call_koboldcpp_no_reset(failures, prompt, response) ==
  LET result_text == response_text(response)
      json_match == search_greedy(result_text)
  IN  IF failures >= max_failures_before_fallback("LocalBrainWithRAG")
      THEN [plan |-> rag_generate_smart_fallback_plan(prompt), failures |-> failures,
            request_sent |-> FALSE, origin |-> "fallback_table", raised |-> FALSE]
      ELSE IF response \notin TransportFailures /\ json_match # NoneVal
                /\ json_loads(json_match) # NoneVal
      THEN [plan |-> dict_set(json_loads(json_match), "source", "openhermes_with_rag"),
            failures |-> failures, request_sent |-> TRUE, origin |-> "model",
            raised |-> FALSE]
      ELSE [plan |-> rag_generate_smart_fallback_plan(prompt),
            failures |-> failures + 1, request_sent |-> TRUE,
            origin |-> "fallback_table", raised |-> TRUE]

\* LocalBrainWithRAG._call_koboldcpp
call_koboldcpp(failures, prompt, response) ==
  LET result_text == response_text(response)
      json_match == search_greedy(result_text)
  IN  IF failures >= max_failures_before_fallback("LocalBrainWithRAG")
      THEN [plan |-> rag_generate_smart_fallback_plan(prompt), failures |-> failures,
            request_sent |-> FALSE, origin |-> "fallback_table", raised |-> FALSE]
      ELSE IF response \notin TransportFailures /\ json_match # NoneVal
                /\ json_loads(json_match) # NoneVal
      THEN [plan |-> dict_set(json_loads(json_match), "source", "openhermes_with_rag"),
            failures |-> 0, request_sent |-> TRUE, origin |-> "model",
            raised |-> FALSE]
      ELSE [plan |-> rag_generate_smart_fallback_plan(prompt),
            failures |-> failures + 1, request_sent |-> TRUE,
            origin |-> "fallback_table", raised |-> TRUE]

\* LightweightBrain.get_plan on a prompt without a template keyword
lightweight_brain_get_plan(failures, response) ==
  LET result_text == response_text(response)
      json_match == search_greedy(result_text)
  IN  IF failures >= max_failures_before_fallback("LightweightBrain")
      THEN [plan |-> get_quick_decision_exploring, failures |-> failures,
            request_sent |-> FALSE, origin |-> "fallback_table", raised |-> FALSE]
      ELSE IF response \in TransportFailures
      THEN [plan |-> get_quick_decision_exploring, failures |-> failures + 1,
            request_sent |-> TRUE, origin |-> "fallback_table", raised |-> TRUE]
      ELSE IF json_match = NoneVal
      THEN [plan |-> get_quick_decision_exploring, failures |-> failures,
            request_sent |-> TRUE, origin |-> "fallback_table", raised |-> FALSE]
      ELSE IF json_loads(json_match) = NoneVal
      THEN [plan |-> get_quick_decision_exploring, failures |-> failures + 1,
            request_sent |-> TRUE, origin |-> "fallback_table", raised |-> TRUE]
      ELSE [plan |-> lightweight_get_plan(result_text), failures |-> 0,
            request_sent |-> TRUE, origin |-> "model", raised |-> FALSE]

\* a request that gave no plan of the model: a transport failure, a timeout,
\* an error status, or a response without a JSON object or with invalid JSON
FailedRequests == BackendResponses \ {"plan_text", "no_action_text"}

\* the auxiliary counts after a get_plan call; degraded_calls counts the
\* get_plan calls answered without a backend request
history_after(history, got, response) ==
  IF ~got.request_sent
  THEN [history EXCEPT !.degraded_calls = @ + 1]
  ELSE [failed |-> IF response \in FailedRequests THEN history.failed + 1 ELSE 0,
        raised |-> IF got.raised THEN history.raised + 1
                   ELSE IF got.origin = "fallback_table" THEN history.raised
                   ELSE 0,
        degraded_calls |-> history.degraded_calls]

\* the record of a get_plan call
GetPlanRecord(got, response, failures_before) ==
  [op |-> "get_plan", response |-> IF got.request_sent THEN response ELSE "none",
   request_sent |-> got.request_sent, origin |-> got.origin, plan |-> got.plan,
   failures_before |-> failures_before]

\* LocalBrain.get_plan
GetPlanLocalBrain ==
  /\ br_client = "LocalBrain"
  /\ br_calls < MaxBrainCalls
  /\ br_calls' = br_calls + 1
  /\ \E prompt \in BrainPrompts, response \in BackendResponses :
       LET got == local_get_plan(brain_failures, prompt, response)
       IN  /\ brain_failures' = got.failures
           /\ br_last' = GetPlanRecord(got, response, brain_failures)
           /\ br_history' = history_after(br_history, got, response)
  /\ UNCHANGED br_client
  /\ UNCHANGED not_br

\* LocalBrainWithRAG.get_plan with a string prompt: _call_koboldcpp
GetPlanWithRAG ==
  /\ br_client = "LocalBrainWithRAG"
  /\ br_calls < MaxBrainCalls
  /\ br_calls' = br_calls + 1
  /\ \E prompt \in BrainPrompts, response \in BackendResponses \ {"no_results"} :
       LET got == call_koboldcpp(brain_failures, prompt, response)
       IN  /\ brain_failures' = got.failures
           /\ br_last' = GetPlanRecord(got, response, brain_failures)
           /\ br_history' = history_after(br_history, got, response)
  /\ UNCHANGED br_client
  /\ UNCHANGED not_br

\* LightweightBrain.get_plan with a prompt that has no template keyword
GetPlanLightweight ==
  /\ br_client = "LightweightBrain"
  /\ br_calls < MaxBrainCalls
  /\ br_calls' = br_calls + 1
  /\ \E response \in BackendResponses \ {"no_results"} :
       LET got == lightweight_brain_get_plan(brain_failures, response)
       IN  /\ brain_failures' = got.failures
           /\ br_last' = GetPlanRecord(got, response, brain_failures)
           /\ br_history' = history_after(br_history, got, response)
  /\ UNCHANGED br_client
  /\ UNCHANGED not_br

\* reset_failure_counter of LocalBrain and LocalBrainWithRAG
ResetFailureCounter ==
  /\ br_client \in {"LocalBrain", "LocalBrainWithRAG"}
  /\ br_calls < MaxBrainCalls
  /\ br_calls' = br_calls + 1
  /\ brain_failures' = 0
  /\ br_last' = [op |-> "reset_failure_counter", response |-> "none",
                 request_sent |-> FALSE, origin |-> "none", plan |-> NoneVal,
                 failures_before |-> brain_failures]
  /\ br_history' = [br_history EXCEPT !.failed = 0, !.raised = 0]
  /\ UNCHANGED br_client
  /\ UNCHANGED not_br

BrInit ==
  /\ br_client \in BrainClients
  /\ brain_failures = 0
  /\ br_calls = 0
  /\ br_last = [op |-> "none", response |-> "none", request_sent |-> FALSE,
                origin |-> "none", plan |-> NoneVal, failures_before |-> 0]
  /\ br_history = [failed |-> 0, raised |-> 0, degraded_calls |-> 0]
  /\ ClIdle /\ RtIdle /\ CxIdle /\ DmIdle /\ GmIdle /\ EnIdle /\ AcIdle /\ MbIdle /\ DcIdle /\ GlIdle /\ WgIdle /\ CfIdle
  /\ LpIdle /\ JsIdle

BrNext ==
  \/ GetPlanLocalBrain
  \/ GetPlanWithRAG
  \/ GetPlanLightweight
  \/ ResetFailureCounter

SpecBrains == BrInit /\ [][BrNext]_vars


\* the responses that are malformed: no JSON object, or invalid JSON
MalformedResponses == {"no_json_text", "bad_json_text"}

\* C21: a malformed backend response is handled like a transport failure.
\* When a get_plan call gets a response text with no JSON object or with
\* invalid JSON, it increments consecutive_failures and returns the plan of
\* the deterministic fallback table, not a plan guessed from the response
\* text, and it does not reset the counter.
C21_MalformedResponseCountsAsFailure ==
  [][(br_calls' = br_calls + 1 /\ br_last'.op = "get_plan"
        /\ br_last'.response \in MalformedResponses) =>
       /\ brain_failures' = brain_failures + 1
       /\ br_last'.origin = "fallback_table"]_vars


\* C22: degradation under sustained failure. Once consecutive_failures has
\* reached max_failures_before_fallback, a get_plan call returns a plan of the
\* fallback table without sending a backend request and leaves the counter
\* unchanged; the get_plan call that follows reset_failure_counter contacts
\* the backend again.
C22_DegradedUntilReset ==
  [][(br_calls' = br_calls + 1 /\ br_last'.op = "get_plan") =>
       /\ brain_failures >= max_failures_before_fallback(br_client) =>
            /\ ~br_last'.request_sent
            /\ br_last'.origin = "fallback_table"
            /\ brain_failures' = brain_failures
       /\ br_last.op = "reset_failure_counter" => br_last'.request_sent]_vars

\* C22 witness: LocalBrain answered a call from its fallback table without a
\* request, was reset, and has contacted the backend again
C22_Witness ==
  /\ br_client = "LocalBrain"
  /\ br_history.degraded_calls >= 1
  /\ br_last.op = "get_plan"
  /\ br_last.request_sent
  /\ br_last.origin = "model"
  /\ brain_failures = 0


\* the clients with reset_failure_counter
CountingClients == {"LocalBrain", "LocalBrainWithRAG"}

BackendBehaviours == {"answers", "refuses", "never_answers"}

\* the components that a make_decision call leaves alone
not_dm_dc == <<cl_vars, rt_vars, cx_vars, gm_vars, en_vars, ac_vars, mb_vars,
               lp_vars, js_vars, br_vars, gl_vars, wg_vars, cf_vars>>

\* requests.post(..., timeout=45 if self.is_openhermes else 30): whether the
\* request is abandoned after having waited so long
post_timed_out(waited, openhermes) == waited >= strategic_timeout(openhermes)

\* make_decision is entered: the complexity is computed and the tier chosen
BeginMakeDecision ==
  /\ dc_pc = "idle"
  /\ dm_calls < MaxDMCalls
  /\ \E context \in DmContexts, goal_id \in DmGoals,
        s \in BackendBehaviours, l \in BackendBehaviours :
       LET complexity == calculate_complexity(context, goal_id)
       IN  /\ dc_call' = [goal |-> goal_id, complexity |-> complexity,
                        strategic |-> "not_sent"]
           /\ dc_backends' = [strategic |-> s, local |-> l]
           /\ dc_pc' = IF use_strategic(complexity, complex_decision_threshold,
                                        remote_available, now, last_remote_call,
                                        remote_call_cooldown)
                       THEN "strategic_post" ELSE "local_generate"
  /\ dc_wait' = 0
  /\ UNCHANGED dm_vars
  /\ UNCHANGED not_dm_dc

\* the strategic backend answers with a plan: make_decision returns it
StrategicAnswers ==
  /\ dc_pc = "strategic_post"
  /\ dc_backends.strategic = "answers"
  /\ last_remote_call' = now
  /\ dm_calls' = dm_calls + 1
  /\ dm_last' = [goal |-> dc_call.goal, complexity |-> dc_call.complexity,
                 strategic |-> "ok", local |-> "not_called",
                 plan |-> dict_set(dict_set(BackendPlan,
                                     "source", "openhermes_strategic"),
                                   "model", "OpenHermes-2.5-Mistral-7B")]
  /\ dc_pc' = "idle"
  /\ dc_wait' = 0
  /\ UNCHANGED <<now, remote_available, complex_decision_threshold,
                 remote_call_cooldown, is_openhermes, dc_backends, dc_call>>
  /\ UNCHANGED not_dm_dc

\* the strategic backend refuses the connection: the except branch marks it
\* unavailable and _routine_decision is entered
StrategicRefuses ==
  /\ dc_pc = "strategic_post"
  /\ dc_backends.strategic = "refuses"
  /\ remote_available' = FALSE
  /\ dc_pc' = "local_generate"
  /\ dc_wait' = 0
  /\ UNCHANGED <<now, complex_decision_threshold, last_remote_call,
                 remote_call_cooldown, is_openhermes, dm_calls, dm_last,
                 dc_backends>>
  /\ dc_call' = [dc_call EXCEPT !.strategic = "connerr"]
  /\ UNCHANGED not_dm_dc

\* time passes while the POST is pending
StrategicWaits ==
  /\ dc_pc = "strategic_post"
  /\ dc_backends.strategic = "never_answers"
  /\ ~post_timed_out(dc_wait, is_openhermes)
  /\ dc_wait < MaxLocalWait
  /\ dc_wait' = dc_wait + 15
  /\ now' = now + 15
  /\ UNCHANGED <<remote_available, complex_decision_threshold, last_remote_call,
                 remote_call_cooldown, is_openhermes, dm_calls, dm_last,
                 dc_pc, dc_backends, dc_call>>
  /\ UNCHANGED not_dm_dc

\* the POST times out: the except branch marks the backend unavailable and
\* _routine_decision is entered
StrategicTimesOut ==
  /\ dc_pc = "strategic_post"
  /\ dc_backends.strategic = "never_answers"
  /\ post_timed_out(dc_wait, is_openhermes)
  /\ remote_available' = FALSE
  /\ dc_pc' = "local_generate"
  /\ dc_wait' = 0
  /\ UNCHANGED <<now, complex_decision_threshold, last_remote_call,
                 remote_call_cooldown, is_openhermes, dm_calls, dm_last,
                 dc_backends>>
  /\ dc_call' = [dc_call EXCEPT !.strategic = "timeout"]
  /\ UNCHANGED not_dm_dc

\* local_client.generate answers with a plan: make_decision returns it
LocalAnswers ==
  /\ dc_pc = "local_generate"
  /\ dc_backends.local = "answers"
  /\ dm_calls' = dm_calls + 1
  /\ dm_last' = [goal |-> dc_call.goal, complexity |-> dc_call.complexity,
                 strategic |-> dc_call.strategic, local |-> "ok",
                 plan |-> routine_decision(dc_call.goal, "ok")]
  /\ dc_pc' = "idle"
  /\ dc_wait' = 0
  /\ UNCHANGED <<now, remote_available, complex_decision_threshold,
                 last_remote_call, remote_call_cooldown, is_openhermes,
                 dc_backends, dc_call>>
  /\ UNCHANGED not_dm_dc

\* local_client.generate raises: make_decision returns _fallback_decision
LocalRefuses ==
  /\ dc_pc = "local_generate"
  /\ dc_backends.local = "refuses"
  /\ dm_calls' = dm_calls + 1
  /\ dm_last' = [goal |-> dc_call.goal, complexity |-> dc_call.complexity,
                 strategic |-> dc_call.strategic, local |-> "error",
                 plan |-> routine_decision(dc_call.goal, "error")]
  /\ dc_pc' = "idle"
  /\ dc_wait' = 0
  /\ UNCHANGED <<now, remote_available, complex_decision_threshold,
                 last_remote_call, remote_call_cooldown, is_openhermes,
                 dc_backends, dc_call>>
  /\ UNCHANGED not_dm_dc

\* time passes while local_client.generate is pending; the client has no
\* timeout, so nothing else can happen to a request that is never answered
LocalWaits ==
  /\ dc_pc = "local_generate"
  /\ dc_backends.local = "never_answers"
  /\ dc_wait < MaxLocalWait
  /\ dc_wait' = dc_wait + 15
  /\ now' = now + 15
  /\ UNCHANGED <<remote_available, complex_decision_threshold, last_remote_call,
                 remote_call_cooldown, is_openhermes, dm_calls, dm_last,
                 dc_pc, dc_backends, dc_call>>
  /\ UNCHANGED not_dm_dc

\* time passes between two calls
BetweenCalls ==
  /\ dc_pc = "idle"
  /\ now + 15 <= MaxTime
  /\ now' = now + 15
  /\ UNCHANGED <<remote_available, complex_decision_threshold, last_remote_call,
                 remote_call_cooldown, is_openhermes, dm_calls, dm_last>>
  /\ UNCHANGED dc_vars
  /\ UNCHANGED not_dm_dc

DcInit ==
  /\ DmConstructed
  /\ DcIdle
  /\ ClIdle /\ RtIdle /\ CxIdle /\ GmIdle /\ EnIdle /\ AcIdle /\ MbIdle /\ LpIdle /\ GlIdle /\ WgIdle /\ CfIdle
  /\ JsIdle /\ BrIdle

DcNext ==
  \/ BeginMakeDecision
  \/ StrategicAnswers
  \/ StrategicRefuses
  \/ StrategicWaits
  \/ StrategicTimesOut
  \/ LocalAnswers
  \/ LocalRefuses
  \/ LocalWaits
  \/ BetweenCalls

\* a step that a pending call can take is taken eventually
DcFairness ==
  /\ WF_vars(StrategicAnswers) /\ WF_vars(StrategicRefuses)
  /\ WF_vars(StrategicWaits) /\ WF_vars(StrategicTimesOut)
  /\ WF_vars(LocalAnswers) /\ WF_vars(LocalRefuses) /\ WF_vars(LocalWaits)

SpecDecisionCall == DcInit /\ [][DcNext]_vars /\ DcFairness

\* C24: every backend call is bounded. A make_decision call whose backend
\* (strategic or local) accepts the request and never answers abandons the
\* request after its timeout, so the call still ends with a plan.
C24_EveryCallEnds == (dc_pc # "idle") ~> (dc_pc = "idle")


(***************************************************************************)
(* IntegratedFallout76System.main_game_loop (main_fallout76_ai.py) next to *)
(* the goal endpoints of the web server, which runs in a thread of its     *)
(* own: the loop reads the goal states, awaits the capture and the context *)
(* update, and only then make_intelligent_decision selects the goal.       *)
(***************************************************************************)
\* the components that the game loop and the goal endpoints leave alone
not_gm_gl == <<cl_vars, rt_vars, cx_vars, dm_vars, en_vars, ac_vars, mb_vars,
               lp_vars, js_vars, br_vars, dc_vars, wg_vars, cf_vars>>

\* the goal ids sent to /goals/set while the loop runs
LoopToggledGoalIds == {"do_public_events", "fishing", "explore_and_map"}

\* /goals/set: ComprehensiveAI.set_goal_state -> GoalManager.set_goal_enabled
GoalSetRequest ==
  /\ \E goal_id \in LoopToggledGoalIds, enabled \in BOOLEAN :
       LET r == set_goal_enabled(goal_enabled, active_goals, goal_id, enabled)
       IN  /\ goal_enabled' = r.enabled
           /\ active_goals' = r.active
  /\ UNCHANGED <<gm_calls, gm_last>>
  /\ UNCHANGED gl_vars
  /\ UNCHANGED not_gm_gl

\* main_game_loop, the start of a cycle: get_goal_states and the test of
\* active_goals; without an enabled goal the loop sleeps and tests again
GameLoopTestsGoals ==
  /\ gl_pc = "top"
  /\ gl_cycles < MaxGameLoopCycles
  /\ gl_tested' = goal_enabled
  /\ gl_pc' = IF \E g \in DOMAIN goal_enabled : goal_enabled[g]
              THEN "in_cycle" ELSE "top"
  /\ UNCHANGED <<gl_cycles, gl_last>>
  /\ UNCHANGED gm_vars
  /\ UNCHANGED not_gm_gl

\* main_game_loop, the rest of the cycle: after capture_game_state and
\* update_context, make_intelligent_decision selects the goal with
\* get_highest_priority_goal, or explore_and_map when that returns None
GameLoopMakesDecision ==
  /\ gl_pc = "in_cycle"
  /\ \E context \in GoalContexts :
       LET found == get_highest_priority_goal(active_goals, context)
           current_goal == IF found = "None" THEN "explore_and_map" ELSE found
       IN  /\ gm_last' = [context |-> context, result |-> found]
           /\ gl_last' = [tested |-> gl_tested, used |-> goal_enabled,
                          goal |-> current_goal]
  /\ gm_calls' = gm_calls + 1
  /\ gl_cycles' = gl_cycles + 1
  /\ gl_pc' = "top"
  /\ UNCHANGED <<goal_enabled, active_goals, gl_tested>>
  /\ UNCHANGED not_gm_gl

GlInit ==
  /\ GmIdle /\ GlIdle
  /\ ClIdle /\ RtIdle /\ CxIdle /\ DmIdle /\ EnIdle /\ AcIdle /\ MbIdle /\ LpIdle /\ WgIdle /\ CfIdle
  /\ JsIdle /\ BrIdle /\ DcIdle

GlNext ==
  \/ GoalSetRequest
  \/ GameLoopTestsGoals
  \/ GameLoopMakesDecision

SpecGameLoop == GlInit /\ [][GlNext]_vars

\* C26: goal toggles take effect only between cycles. Under every
\* interleaving of main_game_loop with toggle requests, the goal states tested
\* at the start of a cycle are the goal states used later in that cycle to
\* select the goal, and the goal a decision is made for was enabled when the
\* cycle began.
C26_TogglesOnlyBetweenCycles ==
  gl_cycles > 0 =>
    /\ gl_last.tested = gl_last.used
    /\ gl_last.tested[gl_last.goal]

(***************************************************************************)
(* The goal endpoints of EnhancedWebServer (web_server_module.py) on the   *)
(* F76GoalManager that main_bot.py connects with set_goal_manager.         *)
(***************************************************************************)
\* requests answered per run of the model
MaxWebCalls == 4

\* the 'type' that SmartGoalGenerator.generate_goal_context gives an entry
GeneratedTypes == {"ai_generated", "rag_generated", "generic"}

\* whether the connected goal manager has a save_custom_goals method:
\* F76GoalManager defines get_active_goals, set_goal_state and
\* add_custom_goal only, so the attribute lookup raises AttributeError
has_save_custom_goals == FALSE

\* del self.goal_manager.goals[goal_id]
dict_del(goals, goal_id) == [goals EXCEPT ![goal_id] = Absent]

\* delete_custom_goal: the registry after the request and the answer
delete_custom_goal(goals, goal_id) ==
  IF goals[goal_id] = Absent
  THEN [goals |-> goals, answer |-> "404 Goal not found"]
  ELSE IF goals[goal_id].type \notin {"custom", "ai_generated"}
  THEN [goals |-> goals, answer |-> "400 Cannot delete built-in goals"]
  ELSE IF has_save_custom_goals
  THEN [goals |-> dict_del(goals, goal_id), answer |-> "success"]
  ELSE [goals |-> dict_del(goals, goal_id), answer |-> "400 Failed to delete goal"]

\* add_smart_goal: F76GoalManager.add_custom_goal stores the generated entry,
\* enabled, under the id of the request
add_smart_goal(goals, goal_id, type) ==
  [goals EXCEPT ![goal_id] = [type |-> type, enabled |-> TRUE]]

\* F76GoalManager.set_goal_state
set_goal_state(goals, goal_id, enabled) ==
  IF goals[goal_id] # Absent
  THEN [goals EXCEPT ![goal_id].enabled = enabled]
  ELSE goals

\* POST /goals/smart/add
AddSmartGoal ==
  /\ wg_calls < MaxWebCalls
  /\ \E goal_id \in CustomGoalIds, type \in GeneratedTypes :
       /\ wg_goals' = add_smart_goal(wg_goals, goal_id, type)
       /\ wg_last' = [op |-> "add", goal_id |-> goal_id, answer |-> "success"]
  /\ wg_calls' = wg_calls + 1
  /\ UNCHANGED not_wg

\* POST /goals/set for an id of the registry
SetGoalState ==
  /\ wg_calls < MaxWebCalls
  /\ \E goal_id \in F76GoalIds, enabled \in BOOLEAN :
       /\ wg_goals[goal_id] # Absent
       /\ wg_goals' = set_goal_state(wg_goals, goal_id, enabled)
       /\ wg_last' = [op |-> "set", goal_id |-> goal_id, answer |-> "success"]
  /\ wg_calls' = wg_calls + 1
  /\ UNCHANGED not_wg

\* DELETE /goals/custom/{goal_id}
DeleteCustomGoal ==
  /\ wg_calls < MaxWebCalls
  /\ \E goal_id \in F76GoalIds :
       LET r == delete_custom_goal(wg_goals, goal_id) IN
         /\ wg_goals' = r.goals
         /\ wg_last' = [op |-> "delete", goal_id |-> goal_id, answer |-> r.answer]
  /\ wg_calls' = wg_calls + 1
  /\ UNCHANGED not_wg

WgInit ==
  /\ WgIdle
  /\ ClIdle /\ RtIdle /\ CxIdle /\ DmIdle /\ GmIdle /\ EnIdle /\ AcIdle /\ MbIdle /\ CfIdle
  /\ LpIdle /\ JsIdle /\ BrIdle /\ DcIdle /\ GlIdle /\ CfIdle

WgNext ==
  \/ AddSmartGoal
  \/ SetGoalState
  \/ DeleteCustomGoal

SpecWebGoals == WgInit /\ [][WgNext]_vars

\* C29: goal deletion is atomic with respect to its outcome. A delete request
\* either answers success and removes exactly the named custom goal, or
\* answers with an error and leaves the goal registry unchanged; a built-in
\* goal is never removed by it.
C29_DeleteIsAtomic ==
  [][(wg_calls' = wg_calls + 1 /\ wg_last'.op = "delete") =>
       /\ IF wg_last'.answer = "success"
          THEN /\ wg_goals[wg_last'.goal_id] # Absent
               /\ wg_goals[wg_last'.goal_id].type # "builtin"
               /\ wg_goals' = dict_del(wg_goals, wg_last'.goal_id)
          ELSE wg_goals' = wg_goals
       /\ \A g \in BuiltinF76Goals : wg_goals'[g] # Absent]_vars

(***************************************************************************)
(* IntelligentDecisionMaker's connection tests (comprehensive_fo76_ai.py): *)
(* the one of __init__ and the ones of POST /config/kobold                 *)
(* (web_server_enhanced.py).                                               *)
(***************************************************************************)
\* connection tests through the config endpoint per run of the model
MaxConnectionTests == 3

\* the components that a connection test leaves alone
not_dm_cf == <<cl_vars, rt_vars, cx_vars, gm_vars, en_vars, ac_vars, mb_vars,
               lp_vars, js_vars, br_vars, dc_vars, gl_vars, wg_vars>>

\* what GET {url}/api/v1/model gives: a model name with 'hermes' in it,
\* another model name, a status other than 200, a RequestException
ConnectionOutcomes == {"openhermes", "other_model", "bad_status", "unreachable"}

\* the URLs the operator posts to /config/kobold
ServerUrls == {DefaultServerUrl, "http://localhost:5001", "http://10.0.0.2:5001"}

\* _test_kobold_connection: the four attributes after the test; only a
\* detected OpenHermes model assigns the threshold and the cooldown
test_kobold_connection(cfg, outcome) ==
  IF outcome = "openhermes"
  THEN [is_openhermes |-> TRUE, threshold |-> 6, cooldown |-> 30, available |-> TRUE]
  ELSE IF outcome = "other_model"
  THEN [cfg EXCEPT !.is_openhermes = FALSE, !.available = TRUE]
  ELSE [cfg EXCEPT !.is_openhermes = FALSE, !.available = FALSE]

\* the attributes of the decision maker as one record
router_config ==
  [is_openhermes |-> is_openhermes, threshold |-> complex_decision_threshold,
   cooldown |-> remote_call_cooldown, available |-> remote_available]

\* __init__: remote_available = False, the connection test, and after it the
\* assignments of the threshold, the cooldown and is_openhermes
init_decision_maker(outcome) ==
  LET tested == test_kobold_connection(
                  [is_openhermes |-> FALSE, threshold |-> 7, cooldown |-> 60,
                   available |-> FALSE], outcome)
  IN [tested EXCEPT !.threshold = 7, !.cooldown = 60, !.is_openhermes = FALSE]

\* update_kobold_config: the URL is replaced and the connection tested
UpdateKoboldConfig ==
  /\ cf_tests < MaxConnectionTests
  /\ \E url \in ServerUrls, outcome \in ConnectionOutcomes :
       LET cfg == test_kobold_connection(router_config, outcome) IN
         /\ remote_server_url' = url
         /\ cf_detected' = outcome
         /\ is_openhermes' = cfg.is_openhermes
         /\ complex_decision_threshold' = cfg.threshold
         /\ remote_call_cooldown' = cfg.cooldown
         /\ remote_available' = cfg.available
  /\ cf_tests' = cf_tests + 1
  /\ UNCHANGED <<now, last_remote_call, dm_calls, dm_last>>
  /\ UNCHANGED not_dm_cf

\* the decision maker after __init__ against a server of each kind
CfInit ==
  /\ \E outcome \in ConnectionOutcomes :
       LET cfg == init_decision_maker(outcome) IN
         /\ cf_detected = outcome
         /\ is_openhermes = cfg.is_openhermes
         /\ complex_decision_threshold = cfg.threshold
         /\ remote_call_cooldown = cfg.cooldown
         /\ remote_available = cfg.available
  /\ remote_server_url = DefaultServerUrl
  /\ cf_tests = 0
  /\ now = ClockStart /\ last_remote_call = 0 /\ dm_calls = 0
  /\ dm_last = [goal |-> "none", complexity |-> 0, strategic |-> "not_sent",
                local |-> "not_called", plan |-> NoneVal]
  /\ ClIdle /\ RtIdle /\ CxIdle /\ GmIdle /\ EnIdle /\ AcIdle /\ MbIdle
  /\ LpIdle /\ JsIdle /\ BrIdle /\ DcIdle /\ GlIdle /\ WgIdle

\* connection tests at any time of the run
CfNext ==
  \/ UpdateKoboldConfig
  \/ Tick

SpecRouterConfig == CfInit /\ [][CfNext]_vars

\* C30: router configuration follows the detected backend. After any
\* sequence of connection tests (at construction and after each server-URL
\* change through the config endpoint), the escalation threshold and the
\* cooldown match the currently detected model: 0.6 and 30 s when an
\* OpenHermes model is detected, 0.7 and 60 s otherwise.
C30_ConfigFollowsDetectedModel ==
  IF cf_detected = "openhermes"
  THEN complex_decision_threshold = 6 /\ remote_call_cooldown = 30
  ELSE complex_decision_threshold = 7 /\ remote_call_cooldown = 60

====
